---------------------------- MODULE Spec2Model ----------------------------
(***************************************************************************)
(* slogger: the tamper-evident append pipeline (logitem.go), the unique    *)
(* compound index (database.go) and the JSON query translator              *)
(* (httpserver.go).                                                        *)
(*                                                                         *)
(* Conventions.                                                            *)
(*  - A Go string is a sequence of bytes (naturals).  SHA-256 is an ideal  *)
(*    (collision free) hash: Sum256Hex maps the hashed buffer, byte by     *)
(*    byte, to symbols outside the byte alphabet, so that a digest used as *)
(*    previous_hash stays a flat sequence inside the next buffer.          *)
(*  - A time.Time is [zero, sec, nsec]; the zero time (year 1) has         *)
(*    zero = TRUE.  Other instants of year 1 are not modelled.             *)
(*  - Go's int64 has 64 bits; TLC's integers have 32, so the model gives   *)
(*    int64 arithmetic of UnixNano IntBits bits and keeps the wrap-around. *)
(***************************************************************************)
EXTENDS Integers, Sequences, FiniteSets, TLC

(***************************************************************************)
(* Bounds of the model.                                                    *)
(***************************************************************************)
AppendsPerWorker == 2    \* appends each worker submits
MaxFaults == 1           \* store errors (other than duplicate key) injected
IterationCap == 6        \* the loop counter is kept up to this value
IntBits == 24            \* width the model gives int64 (64 in the build)
MaxDepth == 3            \* nesting depth of the JSON queries composed
MaxWidth == 2            \* entries of a map, elements of an array composed
MaxSortNames == 2        \* names in a sort parameter
MaxResults == 12         \* records a store iteration yields
MaxServed == 1           \* records a query yields while appends run
MaxOthers == 23          \* commits of callers other than the workers

\* The goroutines that append: the syslog channel is drained by one
\* goroutine (syslogServerRun), HTTP requests are served by handler
\* goroutines.
SyslogProcessors == {"syslog"}
RestHandlers == {"http"}
Workers == SyslogProcessors \cup RestHandlers

\* The goroutine serving GET /logitem/query, and everything that makes
\* store calls.
QueryHandlers == {"query"}

Operations == Workers \cup QueryHandlers

(***************************************************************************)
(* Program constants (logitem.go, const block).                            *)
(***************************************************************************)
initialBackoff == 1
maximumBackoff == 100000
iterationsBeforeBackoff == 5
shardGroup == 1234
secret == <<115, 101, 107, 114, 105, 116, 115, 113, 117, 105, 114, 114, 101, 108>>

fpPresent == 0
fpNoHash == 1
fpNoQuery == 2
fpNoIndex == 3

NsPerMs == 1000000
NsPerSec == 1000000000
MsPerSec == 1000

StatusFound == 302
StatusUnprocessableEntity == 422
StatusCreated == 201
StatusInternalServerError == 500

chanCapacity == 10       \* make(chan LogItem, 10)

(***************************************************************************)
(* Small helpers.                                                          *)
(***************************************************************************)
Min(a, b) == IF a <= b THEN a ELSE b

Range(s) == {s[i] : i \in 1..Len(s)}

Pow2(n) ==
    LET p[i \in Nat] == IF i = 0 THEN 1 ELSE 2 * p[i - 1]
    IN  p[n]

\* (a * b) % m without an intermediate product larger than 3 * m.
MulMod(a, b, m) ==
    LET f[x \in Nat] ==
            IF x = 0 THEN 0
            ELSE (2 * f[x \div 2] + (x % 2) * (a % m)) % m
    IN  f[b]

\* Two's complement wrap of an integer sum to IntBits bits.
WrapInt(u) ==
    LET m == Pow2(IntBits)
        v == u % m
    IN  IF v >= m \div 2 THEN v - m ELSE v

(***************************************************************************)
(* time.Time and its BSON form (milliseconds since the epoch).             *)
(***************************************************************************)
ZeroTime == [zero |-> TRUE, sec |-> 0, nsec |-> 0]

Instant(s, ns) == [zero |-> FALSE, sec |-> s, nsec |-> ns]

IsZero(t) == t.zero

\* t.UnixNano(): sec * 1e9 + nsec in int64 arithmetic, which wraps.
UnixNano(t) ==
    LET m == Pow2(IntBits)
    IN  WrapInt(MulMod(t.sec % m, NsPerSec % m, m) + (t.nsec % m))

\* bson.Marshal of a time.Time: the datetime Unix() * 1000 +
\* Nanosecond() / 1e6 (the zero time is the datetime of year 1).
TimeToBson(t) ==
    IF IsZero(t) THEN [zero |-> TRUE, ms |-> 0]
    ELSE [zero |-> FALSE, ms |-> t.sec * MsPerSec + (t.nsec \div NsPerMs)]

\* bson.Unmarshal of a datetime i: time.Unix(i / 1e3, i % 1e3 * 1e6), and
\* time.Time{} for the datetime of year 1.
TimeFromBson(d) ==
    IF d.zero THEN ZeroTime
    ELSE Instant(d.ms \div MsPerSec, (d.ms % MsPerSec) * NsPerMs)

(***************************************************************************)
(* fmt.Fprintf "%x" and "%s".                                              *)
(***************************************************************************)
HexDigit(d) == IF d < 10 THEN 48 + d ELSE 87 + d

\* %x of a natural: most significant digit first, no padding.
HexNat(n) ==
    LET h[x \in Nat] ==
            IF x < 16 THEN <<HexDigit(x)>>
            ELSE h[x \div 16] \o <<HexDigit(x % 16)>>
    IN  h[n]

\* %x of a signed integer: a minus sign, then the magnitude.
Hex(n) == IF n < 0 THEN <<45>> \o HexNat(-n) ELSE HexNat(n)

(***************************************************************************)
(* The field registry (initFieldProperties, buildJsonMap).                 *)
(***************************************************************************)
\* logItemFieldList: the exported field names, sorted (sort.Strings), given
\* here by their storage names (strings.ToLower of the Go name).
logItemFieldList ==
    << "accountgroupid", "exception", "facility", "formatversion", "hash",
       "hostname", "instanceid", "level", "levelno", "message",
       "originatorip", "originatorport", "originatortime", "pid",
       "previoushash", "sequenceid", "shardgroup", "time", "user",
       "verified" >>

\* The Go type of each field of LogItem.
fieldKind(k) ==
    CASE k \in {"originatortime", "time"} -> "time"
      [] k \in {"pid", "originatorport", "levelno", "sequenceid",
                "shardgroup", "formatversion"} -> "int"
      [] k = "verified" -> "bool"
      [] OTHER -> "string"

\* A plausible slip: hash tagged noquery as well.
fieldTags_hashNoQuery(k) ==
    CASE k = "hash" -> {fpPresent, fpNoHash, fpNoQuery}
      [] k = "verified" -> {fpPresent, fpNoHash, fpNoQuery, fpNoIndex}
      [] OTHER -> {fpPresent}

\* The slogger tags of LogItem.
fieldTags(k) ==
    CASE k = "hash" -> {fpPresent, fpNoHash}
      [] k = "verified" -> {fpPresent, fpNoHash, fpNoQuery, fpNoIndex}
      [] OTHER -> {fpPresent}

hasFieldProperty(k, p) == k \in Range(logItemFieldList) /\ p \in fieldTags(k)

(***************************************************************************)
(* LogItem.                                                                *)
(***************************************************************************)
EmptyLogItem ==
    [ accountgroupid |-> <<>>, exception |-> <<>>, facility |-> <<>>,
      formatversion |-> 0, hash |-> <<>>, hostname |-> <<>>,
      instanceid |-> <<>>, level |-> <<>>, levelno |-> 0, message |-> <<>>,
      originatorip |-> <<>>, originatorport |-> 0,
      originatortime |-> ZeroTime, pid |-> 0, previoushash |-> <<>>,
      sequenceid |-> 0, shardgroup |-> 0, time |-> ZeroTime, user |-> <<>>,
      verified |-> FALSE ]

levelMap ==
    { << <<97, 108, 101, 114, 116>>, 1 >>,
      << <<99, 114, 105, 116>>, 2 >>,
      << <<100, 101, 98, 117, 103>>, 7 >>,
      << <<101, 109, 101, 114, 103>>, 0 >>,
      << <<101, 114, 114>>, 3 >>,
      << <<101, 114, 114, 111, 114>>, 3 >>,
      << <<105, 110, 102, 111>>, 6 >>,
      << <<110, 111, 110, 101>>, -1 >>,
      << <<110, 111, 116, 105, 99, 101>>, 5 >>,
      << <<112, 97, 110, 105, 99>>, 0 >>,
      << <<119, 97, 114, 110>>, 4 >>,
      << <<119, 97, 114, 110, 105, 110, 103>>, 4 >> }

\* strings.ToLower on ASCII bytes.
ToLower(s) == [i \in 1..Len(s) |-> IF s[i] >= 65 /\ s[i] <= 90 THEN s[i] + 32 ELSE s[i]]

levelNoOf(word) ==
    IF \E e \in levelMap : e[1] = word
    THEN (CHOOSE e \in levelMap : e[1] = word)[2]
    ELSE (CHOOSE e \in levelMap : e[1] = <<110, 111, 110, 101>>)[2]

\* A plausible slip: normalise leaves the verification flag as supplied.
normalise_keepsVerified(l, now) ==
    LET t == IF IsZero(l.time) THEN now ELSE l.time
        ot == IF IsZero(l.originatortime) THEN t ELSE l.originatortime
    IN  [l EXCEPT !.levelno = levelNoOf(ToLower(l.level)),
                  !.time = t,
                  !.originatortime = ot,
                  !.formatversion = 1]

\* A plausible slip: the format version the client sent is left alone.
normalise_keepsFormatVersion(l, now) ==
    LET t  == IF IsZero(l.time) THEN now ELSE l.time
        ot == IF IsZero(l.originatortime) THEN t ELSE l.originatortime
    IN  [l EXCEPT !.levelno = levelNoOf(ToLower(l.level)),
                  !.time = t,
                  !.originatortime = ot,
                  !.verified = FALSE]

\* A plausible slip: the time is set to the wall clock whatever it holds.
normalise_alwaysStamps(l, now) ==
    LET ot == IF IsZero(l.originatortime) THEN now ELSE l.originatortime
    IN  [l EXCEPT !.levelno = levelNoOf(ToLower(l.level)),
                  !.time = now,
                  !.originatortime = ot,
                  !.formatversion = 1,
                  !.verified = FALSE]

\* (l *LogItem) normalise(), with the wall clock reading now.
normalise(l, now) ==
    LET t == IF IsZero(l.time) THEN now ELSE l.time
        ot == IF IsZero(l.originatortime) THEN t ELSE l.originatortime
    IN  [l EXCEPT !.levelno = levelNoOf(ToLower(l.level)),
                  !.time = t,
                  !.originatortime = ot,
                  !.formatversion = 1,
                  !.verified = FALSE]

(***************************************************************************)
(* The canonical hash (makeHash, checkHash).                               *)
(***************************************************************************)
\* sha256.Sum256 followed by Sprintf("%064x"): an ideal hash, injective in
\* the buffer, whose digest symbols lie outside the byte alphabet.  (The
\* buffer is bound once, by the singleton set, and not evaluated per symbol.)
Sum256Hex(b) ==
    CHOOSE d \in {[i \in 1..Len(x) |-> x[i] + 256] : x \in {b}} : TRUE

\* The bytes makeHash emits for the value of field k (the type switch).
fieldBytes(l, k) ==
    CASE fieldKind(k) = "time" ->
            IF IsZero(l[k]) THEN <<>> ELSE Hex(UnixNano(l[k]))
      [] fieldKind(k) = "string" -> l[k]
      [] fieldKind(k) = "int" -> Hex(l[k])

\* The buffer makeHash fills from the fields of logItemFieldList, in
\* order: each field's bytes unless it is tagged nohash, then one zero byte.
hashBuffer(l) ==
    LET n == Len(logItemFieldList)
        buf[i \in 1..(n + 1)] ==
            IF i > n THEN <<>>
            ELSE (IF hasFieldProperty(logItemFieldList[i], fpNoHash) THEN <<>>
                  ELSE fieldBytes(l, logItemFieldList[i]))
                 \o <<0>> \o buf[i + 1]
    IN  buf[1]

\* (l *LogItem) makeHash(): the record with its hash field set.
makeHash(l) ==
    CHOOSE r \in {[x EXCEPT !.hash = Sum256Hex(hashBuffer(x) \o secret)] : x \in {l}} : TRUE

\* (l *LogItem) checkHash().
checkHash(l) == makeHash(l).hash = l.hash

(***************************************************************************)
(* The store: one collection, a sequence of documents in insertion order   *)
(* (the order of _id).                                                     *)
(***************************************************************************)
\* bson.Marshal of a LogItem: the document the store keeps.
bsonMarshal(l) ==
    [l EXCEPT !.time = TimeToBson(l.time),
              !.originatortime = TimeToBson(l.originatortime)]

\* bson.Unmarshal of a document into a LogItem.
bsonUnmarshal(d) ==
    [d EXCEPT !.time = TimeFromBson(d.time),
              !.originatortime = TimeFromBson(d.originatortime)]

\* A plausible slip: the record is hashed as received, without the round
\* trip through the store's serialisation.
bsonRoundTrip_skipped(l) == l

\* bson.Marshal followed by bson.Unmarshal into the same LogItem: times
\* lose their sub-millisecond part.
bsonRoundTrip(l) == bsonUnmarshal(bsonMarshal(l))

\* A plausible slip: no unique index (every field indexed the same way).
IsDup_noUniqueIndex(coll, doc) == FALSE

\* mgo.IsDup of an insert of doc: the unique compound index on
\* (sequenceid, shardgroup) set up by ensureIndices.
IsDup(coll, doc) ==
    \E i \in 1..Len(coll) :
        /\ coll[i].sequenceid = doc.sequenceid
        /\ coll[i].shardgroup = doc.shardgroup

\* The indices of the documents of a shard group in coll.
shardDocs(coll, sg) == {i \in 1..Len(coll) : coll[i].shardgroup = sg}

\* Find({shardgroup}).Select(sequenceid, hash).Sort("-sequenceid").Limit(1)
\* .One(&previous): TRUE when the result is mgo.ErrNotFound.
headNotFound(coll, sg) == shardDocs(coll, sg) = {}

\* The head the lookup returns: the document of the shard group with the
\* highest sequenceid, projected on sequenceid and hash.
headOf(coll, sg) ==
    LET S == shardDocs(coll, sg)
        i == CHOOSE i \in S : \A j \in S :
                 \/ coll[j].sequenceid < coll[i].sequenceid
                 \/ (coll[j].sequenceid = coll[i].sequenceid /\ i <= j)
    IN  [sequenceid |-> coll[i].sequenceid, hash |-> coll[i].hash]

(***************************************************************************)
(* Inputs of the ingress handlers.                                         *)
(***************************************************************************)
\* The wall clock readings (time.Now()); they carry a sub-millisecond part.
Clock == {Instant(0, 1000500)}

\* Request bodies of POST /logitem/create, as json.Unmarshal decodes them
\* into a LogItem.  A client may name any field, verified included.
RestBodies ==
    { [EmptyLogItem EXCEPT !.message = <<97>>,
                           !.level = <<73, 78, 70, 79>>,
                           !.originatortime = Instant(0, 2000123),
                           !.levelno = 3,
                           !.hash = <<121>>,
                           !.previoushash = <<120>>,
                           !.sequenceid = 7,
                           !.shardgroup = 5,
                           !.formatversion = 9,
                           !.verified = TRUE] }

\* Request bodies with a level levelMap knows and one it does not know,
\* the latter with a negative pid, and with the fields the service
\* calculates itself supplied by the client.
AllRestBodies ==
    RestBodies \cup
    { [body EXCEPT !.level = <<98, 111, 103, 117, 115>>, !.pid = -4] :
        body \in RestBodies }

\* The peers of the REST endpoint (r.RemoteAddr, split into host and port).
RestPeers == {[ip |-> <<49>>, port |-> 9]}

(***************************************************************************)
(* Syslog messages.  A string is the sequence of its pieces (braces,       *)
(* colons, JSON literals, words); a part of a message is present or not.   *)
(***************************************************************************)
\* The bytes of a piece.
pieceBytes(p) ==
    CASE p = "{" -> <<123>>
      [] p = "}" -> <<125>>
      [] p = ":" -> <<58>>
      [] p = "t" -> <<116>>
      [] p = "m" -> <<109>>
      [] p = "h" -> <<104>>
      [] p = "x" -> <<120>>
      [] p = "\"x\"" -> <<34, 120, 34>>
      [] p = "7" -> <<55>>
      [] p = "514" -> <<53, 49, 52>>
      [] p = "\"message\"" -> <<34, 109, 101, 115, 115, 97, 103, 101, 34>>
      [] p = "\"originator_ip\"" -> <<34, 111, 114, 105, 103, 105, 110, 97, 116, 111, 114, 95, 105, 112, 34>>
      [] p = "\"originator_port\"" -> <<34, 111, 114, 105, 103, 105, 110, 97, 116, 111, 114, 95, 112, 111, 114, 116, 34>>
      [] p = "\"k\"" -> <<34, 107, 34>>
      [] p = "\"time\"" -> <<34, 116, 105, 109, 101, 34>>
      [] p = "\"sequence_id\"" -> <<34, 115, 101, 113, 117, 101, 110, 99, 101, 95, 105, 100, 34>>
      [] p = "\"hash\"" -> <<34, 104, 97, 115, 104, 34>>
      [] p = "\"verified\"" -> <<34, 118, 101, 114, 105, 102, 105, 101, 100, 34>>
      [] p = "true" -> <<116, 114, 117, 101>>
      [] p = "\"1970-01-01T00:00:05Z\"" -> <<34, 49, 57, 55, 48, 45, 48, 49, 45, 48, 49, 84, 48, 48, 58, 48, 48, 58, 48, 53, 90, 34>>

\* The bytes of a string.
textBytes(s) ==
    LET cat[n \in 0..Len(s)] == IF n = 0 THEN <<>> ELSE cat[n - 1] \o pieceBytes(s[n])
    IN  cat[Len(s)]

\* strings.Contains(s, "{")
containsBrace(s) == \E n \in 1..Len(s) : s[n] = "{"

\* net.SplitHostPort on host, host:port: the port is what follows the colon.
SplitHostPort(s) ==
    IF Len(s) = 3 /\ s[2] = ":"
    THEN [ok |-> TRUE, host |-> <<s[1]>>, port |-> s[3]]
    ELSE [ok |-> FALSE, host |-> <<>>, port |-> ""]

\* strconv.Atoi of a piece: the numerals among the pieces.
Atoi(p) ==
    CASE p = "514" -> [ok |-> TRUE, n |-> 514]
      [] p = "7" -> [ok |-> TRUE, n |-> 7]
      [] OTHER -> [ok |-> FALSE, n |-> 0]

levelMapInvert ==
    { << 0, <<101, 109, 101, 114, 103>> >>,
      << 1, <<97, 108, 101, 114, 116>> >>,
      << 2, <<99, 114, 105, 116>> >>,
      << 3, <<101, 114, 114>> >>,
      << 4, <<119, 97, 114, 110>> >>,
      << 5, <<110, 111, 116, 105, 99, 101>> >>,
      << 6, <<105, 110, 102, 111>> >>,
      << 7, <<100, 101, 98, 117, 103>> >>,
      << -1, <<110, 111, 110, 101>> >> }

levelToString(n) ==
    IF \E e \in levelMapInvert : e[1] = n
    THEN (CHOOSE e \in levelMapInvert : e[1] = n)[2]
    ELSE (CHOOSE e \in levelMapInvert : e[1] = -1)[2]

facilityMapInvert ==
    { << 0, <<107, 101, 114, 110>> >>,
      << 1, <<117, 115, 101, 114>> >>,
      << 2, <<109, 97, 105, 108>> >>,
      << 3, <<100, 97, 101, 109, 111, 110>> >>,
      << 4, <<97, 117, 116, 104>> >>,
      << 5, <<115, 121, 115, 108, 111, 103>> >>,
      << 6, <<108, 112, 114>> >>,
      << 7, <<110, 101, 119, 115>> >>,
      << 8, <<117, 117, 99, 112>> >>,
      << 9, <<99, 114, 111, 110>> >>,
      << 10, <<97, 117, 116, 104, 112, 114, 105, 118>> >>,
      << 11, <<102, 116, 112>> >>,
      << 12, <<110, 101, 116, 105, 110, 102, 111>> >>,
      << 13, <<114, 101, 109, 111, 116, 101, 97, 117, 116, 104>> >>,
      << 14, <<105, 110, 115, 116, 97, 108, 108>> >>,
      << 15, <<114, 97, 115>> >>,
      << 16, <<108, 111, 99, 97, 108, 48>> >>,
      << 17, <<108, 111, 99, 97, 108, 49>> >>,
      << 18, <<108, 111, 99, 97, 108, 50>> >>,
      << 19, <<108, 111, 99, 97, 108, 51>> >>,
      << 20, <<108, 111, 99, 97, 108, 52>> >>,
      << 21, <<108, 111, 99, 97, 108, 53>> >>,
      << 22, <<108, 111, 99, 97, 108, 54>> >>,
      << 23, <<108, 111, 99, 97, 108, 55>> >> }

\* facilityToString for the facilities the parser yields (0..23).
facilityToString(n) == (CHOOSE e \in facilityMapInvert : e[1] = n)[2]

\* The JSON names of the fields an object of the model may set, each with
\* the field it names.
jsonKeys ==
    { <<"\"message\"", "message">>, <<"\"originator_ip\"", "originatorip">>,
      <<"\"originator_port\"", "originatorport">>, <<"\"time\"", "time">>,
      <<"\"sequence_id\"", "sequenceid">>, <<"\"hash\"", "hash">>,
      <<"\"verified\"", "verified">> }

\* The JSON literals of the model, each with its kind and the Go value it
\* decodes to.
jsonLiterals ==
    { <<"\"x\"", "string", pieceBytes("x")>>, <<"7", "int", Atoi("7").n>>,
      <<"true", "bool", TRUE>>,
      <<"\"1970-01-01T00:00:05Z\"", "time", Instant(5, 0)>> }

\* json.Unmarshal of the string s into the record item, for the objects
\* with no or one entry: a string into a string field, a number into an
\* int field, a bool into a bool field, an RFC 3339 string into a time; an
\* entry under a name the record does not have is skipped; a value of the
\* wrong type and a string that is no JSON are errors and leave the record
\* as it is.
jsonUnmarshal(s, item) ==
    IF s = <<"{", "}">> THEN [ok |-> TRUE, item |-> item]
    ELSE IF Len(s) = 5 /\ s[1] = "{" /\ s[3] = ":" /\ s[5] = "}"
            /\ s[2] \in {e[1] : e \in jsonKeys} \cup {"\"k\""}
            /\ s[4] \in {e[1] : e \in jsonLiterals}
    THEN IF s[2] = "\"k\"" THEN [ok |-> TRUE, item |-> item]
         ELSE LET f == (CHOOSE e \in jsonKeys : e[1] = s[2])[2]
                  v == CHOOSE e \in jsonLiterals : e[1] = s[4]
              IN  IF fieldKind(f) = v[2]
                  THEN [ok |-> TRUE, item |-> [item EXCEPT ![f] = v[3]]]
                  ELSE IF fieldKind(f) = "string" /\ v[2] = "time"
                  THEN [ok |-> TRUE, item |-> [item EXCEPT ![f] =
                            SubSeq(pieceBytes(s[4]), 2, Len(pieceBytes(s[4])) - 1)]]
                  ELSE [ok |-> FALSE, item |-> item]
    ELSE [ok |-> FALSE, item |-> item]

\* A part of a syslog message: a string, an int, a time.Time, absent.
NoPart == [ok |-> FALSE, s |-> <<>>]

StringPart(s) == [ok |-> TRUE, s |-> s]

NoIntPart == [ok |-> FALSE, n |-> 0]

NoTimePart == [ok |-> FALSE, t |-> ZeroTime]

TimePart(t) == [ok |-> TRUE, t |-> t]

IntPart(n) == [ok |-> TRUE, n |-> n]

\* The record after the client part.
withClient(item, client) ==
    IF client.ok /\ SplitHostPort(client.s).ok
    THEN LET hp == SplitHostPort(client.s)
             withIp == [item EXCEPT !.originatorip = textBytes(hp.host)]
         IN  IF ~Atoi(hp.port).ok
             THEN [withIp EXCEPT !.originatorport = Atoi(hp.port).n]
             ELSE withIp
    ELSE item

\* A plausible slip: the message is set to the concatenation also when the
\* JSON has been decoded.
withMessage_alwaysSets(item, tag, content) ==
    LET combined == tag.s \o <<":">> \o content.s
    IN  IF content.ok
        THEN IF tag.ok
             THEN IF containsBrace(tag.s)
                  THEN [jsonUnmarshal(combined, item).item EXCEPT !.message = textBytes(combined)]
                  ELSE IF containsBrace(content.s)
                  THEN [jsonUnmarshal(content.s, item).item EXCEPT !.message = textBytes(combined)]
                  ELSE [item EXCEPT !.message = textBytes(combined)]
             ELSE IF containsBrace(content.s)
                  THEN [jsonUnmarshal(content.s, item).item EXCEPT !.message = textBytes(content.s)]
                  ELSE [item EXCEPT !.message = textBytes(content.s)]
        ELSE IF tag.ok THEN [item EXCEPT !.message = textBytes(tag.s)]
             ELSE item

\* The record after the content and tag parts.
withMessage(item, tag, content) ==
    LET combined == tag.s \o <<":">> \o content.s
    IN  IF content.ok
        THEN IF tag.ok
             THEN IF containsBrace(tag.s)
                  THEN IF jsonUnmarshal(combined, item).ok
                       THEN jsonUnmarshal(combined, item).item
                       ELSE [item EXCEPT !.message = textBytes(combined)]
                  ELSE IF containsBrace(content.s)
                  THEN IF jsonUnmarshal(content.s, item).ok
                       THEN jsonUnmarshal(content.s, item).item
                       ELSE [item EXCEPT !.message = textBytes(combined)]
                  ELSE [item EXCEPT !.message = textBytes(combined)]
             ELSE IF containsBrace(content.s)
                  THEN IF jsonUnmarshal(content.s, item).ok
                       THEN jsonUnmarshal(content.s, item).item
                       ELSE [item EXCEPT !.message = textBytes(content.s)]
                  ELSE [item EXCEPT !.message = textBytes(content.s)]
        ELSE IF tag.ok THEN [item EXCEPT !.message = textBytes(tag.s)]
             ELSE item

\* processLogParts up to its time stamp: the LogItem made of the parts.
logItemOf(parts) ==
    LET i0 == withClient(EmptyLogItem, parts.client)
        i1 == IF parts.timestamp.ok
              THEN [i0 EXCEPT !.originatortime = parts.timestamp.t] ELSE i0
        i2 == IF parts.severity.ok
              THEN [i1 EXCEPT !.level = levelToString(parts.severity.n)] ELSE i1
        i3 == IF parts.facility.ok
              THEN [i2 EXCEPT !.facility = facilityToString(parts.facility.n)] ELSE i2
        i4 == IF parts.hostname.ok
              THEN [i3 EXCEPT !.hostname = textBytes(parts.hostname.s)] ELSE i3
    IN  withMessage(i4, parts.tag, parts.content)

\* No message.
NoLogParts ==
    [client |-> NoPart, timestamp |-> NoTimePart, severity |-> NoIntPart,
     facility |-> NoIntPart, hostname |-> NoPart, content |-> NoPart, tag |-> NoPart]

\* The syslog messages the appends are run with.
SyslogMessages ==
    { [NoLogParts EXCEPT !.severity = IntPart(4),
                         !.tag = StringPart(<<"t">>),
                         !.content = StringPart(<<"m">>)] }

\* Syslog messages with and without each of client, timestamp, tag and
\* content; the client with and without a port, numeric or not; tag and
\* content with and without a brace, JSON or not, each alone or only when
\* put together.
AllSyslogMessages ==
    { [NoLogParts EXCEPT !.severity = IntPart(4), !.facility = IntPart(1),
                         !.hostname = StringPart(<<"h">>),
                         !.client = c, !.timestamp = ts, !.tag = t, !.content = m] :
        ts \in {NoTimePart, TimePart(Instant(3, 0))},
        c \in {NoPart, StringPart(<<"h">>), StringPart(<<"h", ":", "514">>),
               StringPart(<<"h", ":", "x">>)},
        t \in {NoPart, StringPart(<<"t">>), StringPart(<<"{", "\"message\"">>),
               StringPart(<<"{">>)},
        m \in {NoPart, StringPart(<<"m">>), StringPart(<<"\"x\"", "}">>),
               StringPart(<<"{", "\"message\"", ":", "\"x\"", "}">>),
               StringPart(<<"{", "}">>),
               StringPart(<<"{", "\"originator_ip\"", ":", "\"x\"", "}">>),
               StringPart(<<"{", "\"originator_port\"", ":", "7", "}">>),
               StringPart(<<"{", "\"originator_port\"", ":", "\"x\"", "}">>),
               StringPart(<<"{", "\"time\"", ":", "\"1970-01-01T00:00:05Z\"", "}">>)} }

(***************************************************************************)
(* Parsed JSON (json.Unmarshal into interface{}): bool, float64, string,   *)
(* nil, []interface{} and map[string]interface{}.  Every value is a node   *)
(* [t, a, kids]: t its dynamic type, a the code of a scalar, kids the      *)
(* elements of an array (under the key "") or the entries of a map.        *)
(***************************************************************************)
JBool(b) == [t |-> "bool", a |-> IF b THEN 1 ELSE 0, kids |-> <<>>]

JNumber(n) == [t |-> "float64", a |-> n, kids |-> <<>>]

JString(c) == [t |-> "string", a |-> c, kids |-> <<>>]

JNull == [t |-> "nil", a |-> 0, kids |-> <<>>]

JArray(elems) ==
    [t |-> "array", a |-> 0,
     kids |-> [n \in 1..Len(elems) |-> [k |-> "", v |-> elems[n]]]]

JMap(entries) == [t |-> "map", a |-> 0, kids |-> entries]

\* The elements of an array node, the keys of a map node.
elements(v) == [n \in 1..Len(v.kids) |-> v.kids[n].v]

keysOf(v) == {v.kids[n].k : n \in 1..Len(v.kids)}

(***************************************************************************)
(* buildJsonMap: the json tag of every exported field of LogItem, mapped   *)
(* to the storage name (strings.ToLower of the Go name).                   *)
(***************************************************************************)
jsonName(k) ==
    CASE k = "instanceid" -> "instance_id"
      [] k = "accountgroupid" -> "account_group_id"
      [] k = "originatortime" -> "timestamp"
      [] k = "originatorip" -> "originator_ip"
      [] k = "originatorport" -> "originator_port"
      [] k = "levelno" -> "level_no"
      [] k = "previoushash" -> "previous_hash"
      [] k = "sequenceid" -> "sequence_id"
      [] k = "shardgroup" -> "shard_group"
      [] k = "formatversion" -> "format_version"
      [] OTHER -> k

jsonMap ==
    [j \in {jsonName(k) : k \in Range(logItemFieldList)} |->
        CHOOSE k \in Range(logItemFieldList) : jsonName(k) = j]

(***************************************************************************)
(* The query translator (validateFieldQuery, jsonToDbKeys).                *)
(***************************************************************************)
\* The keys a query is composed from: JSON names of fields, a storage name
\* that is no JSON name, and operator names.
QueryKeys ==
    { "message", "level_no", "hash", "verified", "levelno",
      "$or", "$and", "$nor",
      "$eq", "$ne", "$gt", "$gte", "$lt", "$lte",
      "$in", "$nin", "$not", "$where" }

\* strings.HasPrefix(k, "$") on the keys of QueryKeys.
hasDollarPrefix(k) ==
    k \in { "$or", "$and", "$nor", "$eq", "$ne", "$gt", "$gte", "$lt",
            "$lte", "$in", "$nin", "$not", "$where" }

\* The type switch "case bool, int, int64, uint, uint64, string, float64,
\* time.Time" on a parsed JSON value.
isSimple(v) == v.t \in {"bool", "float64", "string"}

RECURSIVE validateFieldQuery(_)
\* A plausible slip: the entries are looped over without the check that
\* there is exactly one.
validateFieldQuery_anyLength(t) ==
    \A n \in 1..Len(t.kids) :
        LET kk == t.kids[n].k
            vv == t.kids[n].v
        IN  CASE kk \in {"$eq", "$ne", "$gt", "$gte", "$lt", "$lte"} ->
                    isSimple(vv)
              [] kk \in {"$in", "$nin"} ->
                    /\ vv.t = "array"
                    /\ \A m \in 1..Len(vv.kids) : isSimple(vv.kids[m].v)
              [] kk = "$not" -> vv.t = "map" /\ validateFieldQuery(vv)
              [] OTHER -> FALSE

\* validateFieldQuery(t) for a map t: TRUE when it returns nil, FALSE when
\* it returns an error.
validateFieldQuery(t) ==
    /\ Len(t.kids) = 1
    /\ \A n \in 1..Len(t.kids) :
        LET kk == t.kids[n].k
            vv == t.kids[n].v
        IN  CASE kk \in {"$eq", "$ne", "$gt", "$gte", "$lt", "$lte"} ->
                    isSimple(vv)
              [] kk \in {"$in", "$nin"} ->
                    /\ vv.t = "array"
                    /\ \A m \in 1..Len(vv.kids) : isSimple(vv.kids[m].v)
              [] kk = "$not" -> vv.t = "map" /\ validateFieldQuery(vv)
              [] OTHER -> FALSE

RECURSIVE jsonToDbKeys(_)
\* A plausible slip: the elements of $or/$and/$nor are validated on copies,
\* so the array keeps the elements as passed.
jsonToDbKeys_shallow(i) ==
    IF i.t # "map" THEN [ok |-> FALSE, out |-> i]
    ELSE
      LET fail == [ok |-> FALSE, k |-> "", v |-> JNull]
          entry(k, v) ==
            IF k \in DOMAIN jsonMap /\ ~hasFieldProperty(jsonMap[k], fpNoQuery)
            THEN IF isSimple(v) \/ (v.t = "map" /\ validateFieldQuery(v))
                 THEN [ok |-> TRUE, k |-> jsonMap[k], v |-> v]
                 ELSE fail
            ELSE IF hasDollarPrefix(k)
            THEN IF k \in {"$or", "$and", "$nor"}
                 THEN IF v.t = "array" /\ Len(v.kids) > 0
                      THEN IF \A n \in 1..Len(v.kids) :
                                 /\ v.kids[n].v.t = "map"
                                 /\ jsonToDbKeys(v.kids[n].v).ok
                           THEN [ok |-> TRUE, k |-> k, v |-> v]
                           ELSE fail
                      ELSE fail
                 ELSE fail
            ELSE fail
          nm == [n \in 1..Len(i.kids) |-> entry(i.kids[n].k, i.kids[n].v)]
      IN  IF \A n \in 1..Len(i.kids) : nm[n].ok
          THEN [ok |-> TRUE,
                out |-> JMap([n \in 1..Len(i.kids) |-> [k |-> nm[n].k, v |-> nm[n].v]])]
          ELSE [ok |-> FALSE, out |-> i]

\* jsonToDbKeys(&i): ok is TRUE when it returns nil, and out is then the
\* value i holds on return: the keys that are JSON names replaced by
\* storage names, at every level of $or/$and/$nor.  On an error the caller
\* drops the value; out is then i as passed.
jsonToDbKeys(i) ==
    IF i.t # "map" THEN [ok |-> FALSE, out |-> i]
    ELSE
      LET fail == [ok |-> FALSE, k |-> "", v |-> JNull]
          entry(k, v) ==
            IF k \in DOMAIN jsonMap /\ ~hasFieldProperty(jsonMap[k], fpNoQuery)
            THEN IF isSimple(v) \/ (v.t = "map" /\ validateFieldQuery(v))
                 THEN [ok |-> TRUE, k |-> jsonMap[k], v |-> v]
                 ELSE fail
            ELSE IF hasDollarPrefix(k)
            THEN IF k \in {"$or", "$and", "$nor"}
                 THEN IF v.t = "array" /\ Len(v.kids) > 0
                      THEN LET sub == [n \in 1..Len(v.kids) |->
                                         IF v.kids[n].v.t = "map"
                                         THEN jsonToDbKeys(v.kids[n].v)
                                         ELSE [ok |-> FALSE, out |-> JNull]]
                           IN  IF \A n \in 1..Len(v.kids) : sub[n].ok
                               THEN [ok |-> TRUE, k |-> k,
                                     v |-> JArray([n \in 1..Len(v.kids) |-> sub[n].out])]
                               ELSE fail
                      ELSE fail
                 ELSE fail
            ELSE fail
          nm == [n \in 1..Len(i.kids) |-> entry(i.kids[n].k, i.kids[n].v)]
      IN  IF \A n \in 1..Len(i.kids) : nm[n].ok
          THEN [ok |-> TRUE,
                out |-> JMap([n \in 1..Len(i.kids) |-> [k |-> nm[n].k, v |-> nm[n].v]])]
          ELSE [ok |-> FALSE, out |-> i]

(***************************************************************************)
(* State.                                                                  *)
(***************************************************************************)
VARIABLES
    store,      \* the logitems collection: documents in insertion order
    pc,         \* per worker: where its current handler stands
    l,          \* per worker: the LogItem of its current call
    iteration,  \* per worker: the loop counter of makeHashAndInsert
    backoff,    \* per worker: the backoff of makeHashAndInsert
    primary,    \* per worker: its session copy has written, so reads the primary
    calls,      \* per worker: the number of appends it has started
    faults,     \* the number of store errors injected so far
    tampered,   \* the <<document, field>> changed in the store behind the service
    request,    \* GET /logitem/query: the query parameter as json.Unmarshal decodes it
    query,      \* GET /logitem/query: the handler's variable query
    status,     \* GET /logitem/query: the status answered (0: none yet)
    sostring,   \* GET /logitem/query: the sort parameter, split at its commas
    lstring,    \* GET /logitem/query: the limit parameter
    sortOrder,  \* GET /logitem/query: the handler's variable sortOrder
    limit,      \* GET /logitem/query: the handler's variable limit
    find,       \* GET /logitem/query: the store query issued (<<>>: none)
    response,   \* per worker: what POST /logitem/create has answered
    openSessions, \* the session copies made and not closed
    sessionCopy,  \* per operation: its local sessionCopy (0: none)
    logParts,   \* the parts of the syslog message processed last
    hpc,        \* GET /logitem/query: where the handler goroutine stands
    wpc,        \* GET /logitem/query: where the writer goroutine stands
    ch,         \* the channel between queryLogItems and the writer
    closed,     \* ch has been closed
    responseBody, \* the writes made to the response of the query, in order
    writeHeaders, \* the statuses passed to WriteHeader for the query, in order
    results,    \* the number of records the store iteration has to yield
    items,      \* queryLogItems' counter items
    iterOpen,   \* the iteration handle is open
    clientGone, \* the client of the query has disconnected
    alive,      \* the process is running (no goroutine takes a step once it is not)
    blocked,    \* writer goroutines left blocked on a channel nobody closes
    first,      \* the writer goroutine's variable first
    item1,      \* a record as an ingress handler may hold it
    item2,      \* a second record
    normalised, \* item1 after normalise, and after normalise once more (<<>>: not applied)
    hashed,     \* the buffers makeHash fills for item1 and for item2 (<<>>: not applied)
    slept,      \* per worker: microseconds slept after the latest failed insert of the call
    others      \* the commits of callers other than Workers

\* The variables of the append pipeline, those of the query handler.
appendVars == <<store, pc, l, iteration, backoff, primary, calls, faults, tampered>>

queryVars == <<request, query, status, sostring, lstring, sortOrder, limit, find>>

\* The sleeps of the retry loop and the commits of other callers.
backoffVars == <<slept, others>>

\* A pair of records and what normalise and makeHash make of them.
recordVars == <<item1, item2, normalised, hashed>>

\* What the handlers hold besides: responses and session copies.
serveVars == <<response, openSessions, sessionCopy, logParts>>

\* The streaming of a query's results.
streamVars == <<hpc, wpc, ch, closed, responseBody, writeHeaders, results, items,
                iterOpen, clientGone, alive, blocked, first>>

vars == <<appendVars, queryVars, serveVars, streamVars, recordVars, backoffVars>>

\* No response yet.
NoResponse == [status |-> 0, body |-> EmptyLogItem]

InitAppend ==
    /\ store = <<>>
    /\ pc = [w \in Workers |-> "idle"]
    /\ l = [w \in Workers |-> EmptyLogItem]
    /\ iteration = [w \in Workers |-> 0]
    /\ backoff = [w \in Workers |-> initialBackoff]
    /\ primary = [w \in Workers |-> FALSE]
    /\ calls = [w \in Workers |-> 0]
    /\ faults = 0
    /\ tampered = {}

Init ==
    /\ InitAppend
    /\ request = JNull
    /\ query = JNull
    /\ status = 0
    /\ sostring = <<>>
    /\ lstring = [t |-> "absent", a |-> 0]
    /\ sortOrder = <<>>
    /\ limit = 0
    /\ find = <<>>
    /\ response = [w \in Workers |-> NoResponse]
    /\ openSessions = {}
    /\ sessionCopy = [o \in Operations |-> 0]
    /\ logParts = NoLogParts
    /\ hpc = "idle"
    /\ wpc = "none"
    /\ ch = <<>>
    /\ closed = FALSE
    /\ responseBody = <<>>
    /\ writeHeaders = <<>>
    /\ results = 0
    /\ items = 0
    /\ iterOpen = FALSE
    /\ clientGone = FALSE
    /\ alive = TRUE
    /\ blocked = 0
    /\ first = TRUE
    /\ item1 = EmptyLogItem
    /\ item2 = EmptyLogItem
    /\ normalised = <<>>
    /\ hashed = <<>>
    /\ slept = [w \in Workers |-> 0]
    /\ others = 0

(***************************************************************************)
(* makeHashAndInsert, split at its store round trips.  The locals of a     *)
(* call (iteration, backoff, the session copy) are dead once it returns    *)
(* and are reset there; so is the record of a call that panicked.          *)
(***************************************************************************)
\* db.mongoSession.Copy(): a session of its own, told apart from the
\* other open ones by a number.
Copy(open) ==
    CHOOSE n \in 1..(Cardinality(open) + 1) :
        n \notin open /\ \A m \in 1..(n - 1) : m \in open

\* A plausible slip: the session copy is closed before the return only, not
\* in a deferred call.
sessionsAfter_notDeferred(open, s, how) ==
    IF how = "panicked" THEN open ELSE open \ {s}

\* The open sessions once the call that holds s has left in the way how:
\* sessionCopy.Close() is deferred, it runs on a return and on a panic.
sessionsAfter(open, s, how) == open \ {s}

\* A plausible slip: the status is written before the append.
createResponse_headerFirst(how, item) ==
    [status |-> StatusCreated, body |-> IF how = "done" THEN item ELSE EmptyLogItem]

\* What createLogItem answers once makeHashAndInsert has returned (201 and
\* the record) or panicked (wrapPanic: 500).
createResponse(how, item) ==
    IF how = "done" THEN [status |-> StatusCreated, body |-> item]
    ELSE [status |-> StatusInternalServerError, body |-> EmptyLogItem]

\* The handler is between two calls.
atRest(w) == pc[w] \in {"idle", "done", "panicked"}

\* makeHashAndInsert up to its loop: a fresh session copy, the round trip
\* through the store's serialisation, the shard group, the initial backoff.
enterLoop(w, item) ==
    /\ l' = [l EXCEPT ![w] = [bsonRoundTrip(item) EXCEPT !.shardgroup = shardGroup]]
    /\ backoff' = [backoff EXCEPT ![w] = initialBackoff]
    /\ iteration' = [iteration EXCEPT ![w] = 0]
    /\ primary' = [primary EXCEPT ![w] = FALSE]
    /\ pc' = [pc EXCEPT ![w] = "find"]
    /\ calls' = [calls EXCEPT ![w] = @ + 1]
    /\ sessionCopy' = [sessionCopy EXCEPT ![w] = Copy(openSessions)]
    /\ openSessions' = openSessions \cup {Copy(openSessions)}
    /\ response' = [response EXCEPT ![w] = NoResponse]
    /\ slept' = [slept EXCEPT ![w] = 0]
    /\ UNCHANGED <<store, faults, tampered, queryVars, recordVars, others, streamVars>>

\* The call returns or panics: its locals die, its session copy is closed.
leaveLoop(w, how, item) ==
    /\ l' = [l EXCEPT ![w] = item]
    /\ backoff' = [backoff EXCEPT ![w] = initialBackoff]
    /\ iteration' = [iteration EXCEPT ![w] = 0]
    /\ primary' = [primary EXCEPT ![w] = FALSE]
    /\ pc' = [pc EXCEPT ![w] = how]
    /\ openSessions' = sessionsAfter(openSessions, sessionCopy[w], how)
    /\ sessionCopy' = [sessionCopy EXCEPT ![w] = 0]
    /\ response' = [response EXCEPT ![w] =
           IF w \in RestHandlers THEN createResponse(how, item) ELSE @]
    /\ slept' = [slept EXCEPT ![w] = 0]
    /\ UNCHANGED <<calls, queryVars, recordVars, others, logParts, streamVars>>

\* createLogItem: decode the body, fill in the peer, normalise, append; a
\* body json.Unmarshal cannot decode into a LogItem is answered 422.
createLogItemOn(w, body) ==
    /\ alive
    /\ w \in RestHandlers
    /\ atRest(w)
    /\ \/ /\ calls[w] < AppendsPerWorker
          /\ UNCHANGED logParts
          /\ \E peer \in RestPeers, now \in Clock :
                enterLoop(w, normalise([body EXCEPT !.originatorip = peer.ip,
                                                    !.originatorport = peer.port], now))
       \/ /\ response' = [response EXCEPT ![w] =
                 [status |-> StatusUnprocessableEntity, body |-> EmptyLogItem]]
          /\ UNCHANGED <<appendVars, queryVars, recordVars, backoffVars, openSessions, sessionCopy, logParts,
                         streamVars>>

createLogItem(w) == \E body \in RestBodies : createLogItemOn(w, body)

\* A plausible slip: the receipt time is not written over the record's.
stamped_keepsInbound(item, now) == item

\* logItem.Time = time.Now()
stamped(item, now) == [item EXCEPT !.time = now]

\* processLogParts on the message parts: the record made of the parts,
\* stamped with the receipt time, normalised, appended.
processLogPartsOn(w, parts) ==
    /\ alive
    /\ w \in SyslogProcessors
    /\ atRest(w)
    /\ calls[w] < AppendsPerWorker
    /\ logParts' = parts
    /\ \E now \in Clock :
          enterLoop(w, normalise(stamped(logItemOf(parts), now), now))

processLogParts(w) == \E parts \in SyslogMessages : processLogPartsOn(w, parts)

\* What a session copy in Monotonic mode may read: the primary once it has
\* written, before that also a secondary, which holds a prefix of the
\* primary's inserts.
views(w) ==
    IF primary[w] THEN {store}
    ELSE {SubSeq(store, 1, n) : n \in 0..Len(store)}

\* A plausible slip: the found branch advances the sequence but keeps the
\* previous hash the record already carries.
linked_noRelink(item, view) ==
    makeHash(IF headNotFound(view, item.shardgroup)
             THEN [item EXCEPT !.previoushash = <<>>, !.sequenceid = 0]
             ELSE LET prev == headOf(view, item.shardgroup)
                  IN  [item EXCEPT !.sequenceid = prev.sequenceid + 1])

\* A plausible slip: the first sequence id of a shard is 1.
linked_firstIdOne(item, view) ==
    makeHash(IF headNotFound(view, item.shardgroup)
             THEN [item EXCEPT !.previoushash = <<>>, !.sequenceid = 1]
             ELSE LET prev == headOf(view, item.shardgroup)
                  IN  [item EXCEPT !.previoushash = prev.hash,
                                   !.sequenceid = prev.sequenceid + 1])

\* A plausible slip: the not-found branch resets the sequence id only and
\* keeps the previous hash the client supplied.
linked_keepsClientHash(item, view) ==
    makeHash(IF headNotFound(view, item.shardgroup)
             THEN [item EXCEPT !.sequenceid = 0]
             ELSE LET prev == headOf(view, item.shardgroup)
                  IN  [item EXCEPT !.previoushash = prev.hash,
                                   !.sequenceid = prev.sequenceid + 1])

\* The record after the chain-head lookup on view and makeHash.
linked(item, view) ==
    makeHash(IF headNotFound(view, item.shardgroup)
             THEN [item EXCEPT !.previoushash = <<>>, !.sequenceid = 0]
             ELSE LET prev == headOf(view, item.shardgroup)
                  IN  [item EXCEPT !.previoushash = prev.hash,
                                   !.sequenceid = prev.sequenceid + 1])

\* The chain-head lookup answers (a head or ErrNotFound); the record is
\* linked to it and hashed.
FindHead(w) ==
    /\ alive
    /\ pc[w] = "find"
    /\ \E view \in views(w) : l' = [l EXCEPT ![w] = linked(l[w], view)]
    /\ pc' = [pc EXCEPT ![w] = "insert"]
    /\ UNCHANGED <<store, iteration, backoff, primary, calls, faults, tampered, queryVars, recordVars, backoffVars,
                   serveVars, streamVars>>

\* The chain-head lookup fails with an error other than ErrNotFound:
\* log.Panicf, recovered by the handler's wrapper.
FindError(w) ==
    /\ alive
    /\ pc[w] = "find"
    /\ faults < MaxFaults
    /\ faults' = faults + 1
    /\ leaveLoop(w, "panicked", EmptyLogItem)
    /\ UNCHANGED <<store, tampered>>

\* c.Insert(l) succeeds: the document is committed, Verified is set in
\* memory and the loop ends.
InsertOk(w) ==
    /\ alive
    /\ pc[w] = "insert"
    /\ ~IsDup(store, bsonMarshal(l[w]))
    /\ store' = Append(store, bsonMarshal(l[w]))
    /\ leaveLoop(w, "done", [l[w] EXCEPT !.verified = TRUE])
    /\ UNCHANGED <<faults, tampered>>

\* A plausible slip: every insert error, duplicate key included, panics.
InsertDup_surfaces(w) ==
    /\ alive
    /\ pc[w] = "insert"
    /\ IsDup(store, bsonMarshal(l[w]))
    /\ leaveLoop(w, "panicked", EmptyLogItem)
    /\ UNCHANGED <<store, faults, tampered>>

\* rand.Int(): a non-negative int.
RandInts == {0, 2 ^ (IntBits - 1) - 1}

\* A plausible slip: the remainder is taken as the sleep, which may be zero.
sleepFor_fromZero(rnd, b) == (rnd % (b + 1))

\* The microseconds slept: 1 + rand.Int() % backoff.
sleepFor(rnd, b) == 1 + (rnd % b)

\* c.Insert(l) answers duplicate key: back off once iterationsBeforeBackoff
\* iterations have failed, then take the next iteration.  The counter is
\* only ever compared with iterationsBeforeBackoff and is kept up to
\* IterationCap.
InsertDup(w) ==
    /\ alive
    /\ pc[w] = "insert"
    /\ IsDup(store, bsonMarshal(l[w]))
    /\ backoff' = [backoff EXCEPT ![w] =
           IF iteration[w] >= iterationsBeforeBackoff
           THEN Min(2 * @, maximumBackoff) ELSE @]
    /\ iteration' = [iteration EXCEPT ![w] = Min(@ + 1, IterationCap)]
    /\ primary' = [primary EXCEPT ![w] = TRUE]
    /\ pc' = [pc EXCEPT ![w] = "find"]
    /\ \E rnd \in RandInts :
          slept' = [slept EXCEPT ![w] =
              IF iteration[w] >= iterationsBeforeBackoff
              THEN sleepFor(rnd, backoff[w]) ELSE 0]
    /\ UNCHANGED <<store, l, calls, faults, tampered, queryVars, recordVars, others, serveVars,
                   streamVars>>

\* c.Insert(l) fails with an error that is no duplicate key: log.Panicf.
InsertError(w) ==
    /\ alive
    /\ pc[w] = "insert"
    /\ faults < MaxFaults
    /\ faults' = faults + 1
    /\ leaveLoop(w, "panicked", EmptyLogItem)
    /\ UNCHANGED <<store, tampered>>

(***************************************************************************)
(* queryLogItems with the empty query: every document, in _id order, each  *)
(* with Verified recomputed by checkHash.                                  *)
(***************************************************************************)
queryLogItems(coll) ==
    [i \in 1..Len(coll) |->
        LET r == bsonUnmarshal(coll[i])
        IN  [r EXCEPT !.verified = checkHash(r)]]

(***************************************************************************)
(* The service: concurrent appends.                                        *)
(***************************************************************************)
Next ==
    \/ \E w \in Workers : createLogItem(w)
    \/ \E w \in Workers : processLogParts(w)
    \/ \E w \in Workers : FindHead(w)
    \/ \E w \in Workers : FindError(w)
    \/ \E w \in Workers : InsertOk(w)
    \/ \E w \in Workers : InsertDup(w)
    \/ \E w \in Workers : InsertError(w)

Spec == Init /\ [][Next]_vars

\* The service with a store that answers every request with success,
\* not-found or duplicate key, under fair scheduling of every goroutine.
NextLive ==
    \/ \E w \in Workers : createLogItem(w)
    \/ \E w \in Workers : processLogParts(w)
    \/ \E w \in Workers : FindHead(w)
    \/ \E w \in Workers : InsertOk(w)
    \/ \E w \in Workers : InsertDup(w)

SpecLive ==
    /\ Init
    /\ [][NextLive]_vars
    /\ \A w \in Workers :
          WF_vars(FindHead(w)) /\ WF_vars(InsertOk(w)) /\ WF_vars(InsertDup(w))

(***************************************************************************)
(* The store changed behind the service: one hashed field of one stored    *)
(* document is overwritten, no hash is recomputed.                         *)
(***************************************************************************)
\* The fields makeHash writes into its buffer.
hashedFields ==
    {k \in Range(logItemFieldList) : ~hasFieldProperty(k, fpNoHash)}

\* Values a stored field may be overwritten with: another string, another
\* integer, another datetime (the datetime of year 1, the next millisecond,
\* and the datetime 2^(IntBits - 6) milliseconds later, which is 2^58 ms in
\* the build and within the int64 range of a BSON datetime).
tamperValues(doc, k) ==
    (CASE fieldKind(k) = "string" -> {<<>>, <<122>>}
       [] fieldKind(k) = "int" -> {doc[k] + 1}
       [] fieldKind(k) = "time" ->
            {[zero |-> TRUE, ms |-> 0]} \cup
            (IF doc[k].zero THEN {[zero |-> FALSE, ms |-> 1]}
             ELSE {[zero |-> FALSE, ms |-> doc[k].ms + 1],
                   [zero |-> FALSE, ms |-> doc[k].ms + Pow2(IntBits - 6)]}))
    \ {doc[k]}

\* One write to the collection that bypasses the service; the unique index
\* still applies to it.
Tamper ==
    /\ tampered = {}
    /\ \E i \in 1..Len(store), k \in hashedFields :
         \E v \in tamperValues(store[i], k) :
            LET doc == [store[i] EXCEPT ![k] = v]
            IN  /\ \A j \in 1..Len(store) :
                      j # i => ~(/\ store[j].sequenceid = doc.sequenceid
                                 /\ store[j].shardgroup = doc.shardgroup)
                /\ store' = [store EXCEPT ![i] = doc]
                /\ tampered' = {<<i, k>>}
    /\ UNCHANGED <<pc, l, iteration, backoff, primary, calls, faults, queryVars, recordVars, backoffVars,
                   serveVars, streamVars>>

NextTamper ==
    \/ Next
    \/ Tamper

SpecTamper == Init /\ [][NextTamper]_vars

(***************************************************************************)
(* GET /logitem/query, up to the translation of the query parameter.  The  *)
(* parameters the client sends are composed one from the other: a leaf,    *)
(* then the previous parameter wrapped into a map or an array, or widened  *)
(* by a second entry or element.                                           *)
(***************************************************************************)
Leaves ==
    {JBool(TRUE), JNumber(1), JString(120), JNull, JMap(<<>>), JArray(<<>>)}

RECURSIVE Depth(_)
Depth(v) ==
    IF Len(v.kids) = 0 THEN 0
    ELSE 1 + (CHOOSE d \in {Depth(v.kids[n].v) : n \in 1..Len(v.kids)} :
                 \A n \in 1..Len(v.kids) : Depth(v.kids[n].v) <= d)

\* The parameters composed from the parameter r of the previous request.
composedFrom(r) ==
    LET wrapped ==
            IF Depth(r) < MaxDepth
            THEN {JMap(<<[k |-> k, v |-> r]>>) : k \in QueryKeys}
                     \cup {JArray(<<r>>)}
            ELSE {}
        moreEntries ==
            IF r.t = "map" /\ Depth(r) = 1 /\ Len(r.kids) < MaxWidth
            THEN {JMap(Append(r.kids, [k |-> k, v |-> r.kids[1].v])) :
                      k \in QueryKeys \ keysOf(r)}
            ELSE {}
        moreElements ==
            IF r.t = "array" /\ Len(r.kids) \in 1..(MaxWidth - 1)
            THEN {JArray(Append(elements(r), s)) : s \in Leaves}
            ELSE {}
    IN  wrapped \cup moreEntries \cup moreElements

\* The query parameter left out (len(qstring) = 0), and one that is no JSON
\* text (json.Unmarshal returns an error).
NoQuery == [t |-> "absent", a |-> 0, kids |-> <<>>]

MalformedQuery == [t |-> "malformed", a |-> 0, kids |-> <<>>]

\* The limit parameter: left out, a decimal integer, other text.
NoLimit == [t |-> "absent", a |-> 0]

LimitParams ==
    {NoLimit, [t |-> "text", a |-> 0]} \cup {[t |-> "int", a |-> n] : n \in {-1, 0, 2}}

\* The names of the sort parameter.  A name is the sequence of its pieces:
\* sign characters and words.
SortNames ==
    { <<"message">>, <<"Level_No">>, <<"-", "level_no">>, <<"+", "message">>,
      <<"verified">>, <<"-", "verified">>, <<"levelno">>, <<>>, <<"-">>,
      <<"-", "-", "message">>, <<"+", "-", "message">> }

\* strings.ToLower of a piece, of a name.
lowerPiece(c) == IF c = "Level_No" THEN "level_no" ELSE c

nameToLower(v) == [n \in 1..Len(v) |-> lowerPiece(v[n])]

\* A plausible slip: the prefix "+" is not trimmed.
sortOrderOf_keepsPlus(v) ==
    LET one(name) ==
            LET n0 == nameToLower(name)
                desc == Len(n0) > 0 /\ n0[1] = "-"
                n == IF desc THEN Tail(n0) ELSE n0
            IN  IF /\ Len(n) = 1
                   /\ n[1] \in DOMAIN jsonMap
                   /\ ~hasFieldProperty(jsonMap[n[1]], fpNoQuery)
                THEN [ok |-> TRUE, desc |-> desc, field |-> jsonMap[n[1]]]
                ELSE [ok |-> FALSE, desc |-> FALSE, field |-> ""]
        each == [n \in 1..Len(v) |-> one(v[n])]
    IN  [ok |-> \A n \in 1..Len(v) : each[n].ok,
         order |-> [n \in 1..Len(v) |-> [desc |-> each[n].desc, field |-> each[n].field]]]

\* The sort loop of queryLogItem on the names v: ok is FALSE when it answers
\* "Cannot parse sort"; order is then of no use.  An entry of the order is
\* [desc, field]: the field name, with "-" in front when desc.
sortOrderOf(v) ==
    LET one(name) ==
            LET n0 == nameToLower(name)
                desc == Len(n0) > 0 /\ n0[1] = "-"
                n == IF desc THEN Tail(n0)
                     ELSE IF Len(n0) > 0 /\ n0[1] = "+" THEN Tail(n0)
                     ELSE n0
            IN  IF /\ Len(n) = 1
                   /\ n[1] \in DOMAIN jsonMap
                   /\ ~hasFieldProperty(jsonMap[n[1]], fpNoQuery)
                THEN [ok |-> TRUE, desc |-> desc, field |-> jsonMap[n[1]]]
                ELSE [ok |-> FALSE, desc |-> FALSE, field |-> ""]
        each == [n \in 1..Len(v) |-> one(v[n])]
    IN  [ok |-> \A n \in 1..Len(v) : each[n].ok,
         order |-> [n \in 1..Len(v) |-> [desc |-> each[n].desc, field |-> each[n].field]]]

\* c.Find(query).Sort(append(sortOrder, "_id")...), with Limit(limit) when
\* limit > 0 (0 stands for no limit).
findOf(q, order, lim) ==
    [query |-> q,
     sort |-> Append(order, [desc |-> FALSE, field |-> "_id"]),
     limit |-> IF lim > 0 THEN lim ELSE 0]

\* queryLogItem up to the store query, on the request r = [q, sort, limit]:
\* the query parameter is decoded and translated, limit and sort are parsed;
\* any error is answered with 422 and the handler returns; otherwise the
\* header 302 is written and the store query is issued.
queryLogItemOn(r) ==
    LET tr == IF r.q.t = "absent" THEN [ok |-> TRUE, out |-> JNull]
              ELSE IF r.q.t = "malformed" THEN [ok |-> FALSE, out |-> JNull]
              ELSE jsonToDbKeys(r.q)
        lim == IF r.limit.t = "int" THEN r.limit.a ELSE 0
        limOk == r.limit.t \in {"absent", "int"}
        so == sortOrderOf(r.sort)
        ok == tr.ok /\ limOk /\ so.ok
    IN  /\ request' = r.q
        /\ sostring' = r.sort
        /\ lstring' = r.limit
        /\ query' = tr.out
        /\ limit' = IF tr.ok THEN lim ELSE 0
        /\ sortOrder' = IF ok THEN so.order ELSE <<>>
        /\ status' = IF ok THEN StatusFound ELSE StatusUnprocessableEntity
        /\ find' = IF ok THEN <<findOf(tr.out, so.order, lim)>> ELSE <<>>
        /\ UNCHANGED <<appendVars, response, logParts, recordVars, backoffVars>>

\* A request whose query parameter is composed from the previous one, with
\* neither sort nor limit.
queryLogItem ==
    /\ UNCHANGED <<openSessions, sessionCopy, streamVars>>
    /\ \E p \in (IF status = 0 THEN Leaves ELSE composedFrom(request)) :
        queryLogItemOn([q |-> p, sort |-> <<>>, limit |-> NoLimit])

NextQuery == queryLogItem

SpecQuery == Init /\ [][NextQuery]_vars

\* The query parameters of the requests that carry a sort and a limit: none,
\* no JSON text, {}, and {name: {"$eq": "x"}} for three names.
SortedQueries ==
    {NoQuery, MalformedQuery, JMap(<<>>)} \cup
    {JMap(<<[k |-> name, v |-> JMap(<<[k |-> "$eq", v |-> JString(120)]>>)]>>) :
        name \in {"hash", "verified", "message"}}

\* The requests that differ from the previous request in one parameter:
\* another query, one more sort name, another limit.
sortedRequests ==
    {[q |-> p, sort |-> sostring, limit |-> lstring] : p \in SortedQueries}
    \cup {[q |-> request, sort |-> Append(sostring, name), limit |-> lstring] :
             name \in (IF Len(sostring) < MaxSortNames THEN SortNames ELSE {})}
    \cup {[q |-> request, sort |-> sostring, limit |-> n] : n \in LimitParams}

\* A request with query, sort and limit parameters.
queryLogItemSorted ==
    /\ UNCHANGED <<openSessions, sessionCopy, streamVars>>
    /\ \E r \in sortedRequests : queryLogItemOn(r)

NextSorted == queryLogItemSorted

SpecSorted == Init /\ [][NextSorted]_vars

(***************************************************************************)
(* GET /logitem/query from the request to the end of its response: the     *)
(* handler goroutine runs the store iteration and sends every record       *)
(* into ch, the writer goroutine receives from ch and encodes into the     *)
(* response.  A record the iteration yields is told apart by its position. *)
(***************************************************************************)
\* One write to the response: the opening, a separator, a record, the
\* trailer (with complete and count), the text of http.Error.
Written(kind, n) == [kind |-> kind, n |-> n, complete |-> kind = "trailer"]

\* The requests served here: with and without a query that decodes, with
\* and without a limit.
StreamRequests ==
    {[q |-> p, sort |-> <<>>, limit |-> m] :
        p \in {NoQuery, MalformedQuery}, m \in {NoLimit, [t |-> "int", a |-> 2]}}

\* The numbers of records the store may hold for a query with limit lim.
resultSizes(lim) == 0..(IF lim > 0 THEN Min(lim, MaxResults) ELSE MaxResults)

\* The writer goroutine of the previous request has gone, or stays blocked
\* on its channel for ever.
writerBlocked == wpc = "recv" /\ ch = <<>> /\ hpc = "returned"

\* queryLogItem up to the first iter.Next: the parameters are answered 422,
\* or the header 302 and the opening are written, the writer goroutine is
\* started and queryLogItems copies the session and opens the iteration.
serveQuery ==
    /\ alive
    /\ hpc \in {"idle", "done", "returned"}
    /\ wpc \in {"none", "done"} \/ writerBlocked
    /\ blocked' = IF writerBlocked THEN blocked + 1 ELSE blocked
    /\ \E r \in StreamRequests : queryLogItemOn(r)
    /\ writeHeaders' = <<status'>>
    /\ ch' = <<>>
    /\ closed' = FALSE
    /\ items' = 0
    /\ first' = TRUE
    /\ clientGone' = FALSE
    /\ IF status' = StatusFound
       THEN /\ responseBody' = <<Written("open", 0)>>
            /\ wpc' = "recv"
            /\ hpc' = "next"
            /\ sessionCopy' = [sessionCopy EXCEPT !["query"] = Copy(openSessions)]
            /\ openSessions' = openSessions \cup {Copy(openSessions)}
            /\ iterOpen' = TRUE
            /\ \E n \in resultSizes(limit') : results' = n
       ELSE /\ responseBody' = <<Written("text", 0)>>
            /\ wpc' = "none"
            /\ hpc' = "done"
            /\ results' = 0
            /\ UNCHANGED <<sessionCopy, openSessions, iterOpen>>
    /\ UNCHANGED alive

\* iter.Next yields a record and ch <- result goes through: there is room
\* in the channel.
iterNext ==
    /\ alive
    /\ hpc = "next"
    /\ items < results
    /\ Len(ch) < chanCapacity
    /\ ch' = Append(ch, items + 1)
    /\ items' = items + 1
    /\ UNCHANGED <<appendVars, queryVars, recordVars, backoffVars, serveVars, hpc, wpc, closed, responseBody,
                   writeHeaders, results, iterOpen, clientGone, alive, blocked, first>>

\* iter.Next answers false and iter.Err() nil: queryLogItems returns items
\* and true, its deferred calls close the iteration and the session copy,
\* the handler closes ch.
iterEnd ==
    /\ alive
    /\ hpc = "next"
    /\ items = results
    /\ iterOpen' = FALSE
    /\ openSessions' = sessionsAfter(openSessions, sessionCopy["query"], "done")
    /\ sessionCopy' = [sessionCopy EXCEPT !["query"] = 0]
    /\ closed' = TRUE
    /\ hpc' = "wait"
    /\ UNCHANGED <<appendVars, queryVars, recordVars, backoffVars, response, logParts, wpc, ch, responseBody,
                   writeHeaders, results, items, clientGone, alive, blocked, first>>

\* iter.Next answers false and iter.Err() an error: log.Panicf; the deferred
\* calls close the iteration and the session copy, the panic passes
\* close(ch) and wait.Wait() by, wrapPanic recovers and calls http.Error
\* with 500 on a response whose header is out already.
iterError ==
    /\ alive
    /\ hpc = "next"
    /\ faults < MaxFaults
    /\ faults' = faults + 1
    /\ iterOpen' = FALSE
    /\ openSessions' = sessionsAfter(openSessions, sessionCopy["query"], "panicked")
    /\ sessionCopy' = [sessionCopy EXCEPT !["query"] = 0]
    /\ writeHeaders' = Append(writeHeaders, StatusInternalServerError)
    /\ responseBody' = Append(responseBody, Written("text", 0))
    /\ hpc' = "recovered"
    /\ UNCHANGED <<store, pc, l, iteration, backoff, primary, calls, tampered,
                   queryVars, recordVars, backoffVars, response, logParts, wpc, ch, closed, results, items,
                   clientGone, alive, blocked, first>>

\* The handler returns after wrapPanic has recovered: the server finishes
\* the response.
handlerReturns ==
    /\ alive
    /\ hpc = "recovered"
    /\ hpc' = "returned"
    /\ UNCHANGED <<appendVars, queryVars, recordVars, backoffVars, serveVars, wpc, ch, closed, responseBody,
                   writeHeaders, results, items, iterOpen, clientGone, alive, blocked, first>>

\* The writer goroutine receives a record and encodes it into the response,
\* after a separator when it is not the first.  Once the handler has
\* returned the response is finished and the write is lost.
writerRecv ==
    /\ alive
    /\ wpc = "recv"
    /\ ch # <<>>
    /\ ch' = Tail(ch)
    /\ first' = FALSE
    /\ responseBody' = IF hpc = "returned" THEN responseBody
                       ELSE responseBody
                            \o (IF first THEN <<>> ELSE <<Written("sep", 0)>>)
                            \o <<Written("record", Head(ch))>>
    /\ UNCHANGED <<appendVars, queryVars, recordVars, backoffVars, serveVars, hpc, wpc, closed, writeHeaders,
                   results, items, iterOpen, clientGone, alive, blocked>>

\* encoder.Encode answers an error (the client has gone, or the handler has
\* returned and the response is finished): panic(err) in a goroutine that
\* has no recover, which ends the process.
writerEncodeError ==
    /\ alive
    /\ wpc = "recv"
    /\ ch # <<>>
    /\ clientGone \/ hpc = "returned"
    /\ ch' = Tail(ch)
    /\ alive' = FALSE
    /\ UNCHANGED <<appendVars, queryVars, recordVars, backoffVars, serveVars, hpc, wpc, closed, responseBody,
                   writeHeaders, results, items, iterOpen, clientGone, blocked, first>>

\* A plausible slip: the writer returns when it finds the channel empty.
writerDone_onEmpty ==
    /\ alive
    /\ wpc = "recv"
    /\ ch = <<>>
    /\ wpc' = "done"
    /\ UNCHANGED <<appendVars, queryVars, recordVars, backoffVars, serveVars, hpc, ch, closed, responseBody,
                   writeHeaders, results, items, iterOpen, clientGone, alive, blocked, first>>

\* The writer finds ch closed and drained and returns (wait.Done()).
writerDone ==
    /\ alive
    /\ wpc = "recv"
    /\ ch = <<>>
    /\ closed
    /\ wpc' = "done"
    /\ UNCHANGED <<appendVars, queryVars, recordVars, backoffVars, serveVars, hpc, ch, closed, responseBody,
                   writeHeaders, results, items, iterOpen, clientGone, alive, blocked, first>>

\* wait.Wait() returns and the handler writes the trailer.
writeTrailer ==
    /\ alive
    /\ hpc = "wait"
    /\ wpc = "done"
    /\ responseBody' = Append(responseBody, Written("trailer", items))
    /\ hpc' = "done"
    /\ UNCHANGED <<appendVars, queryVars, recordVars, backoffVars, serveVars, wpc, ch, closed, writeHeaders,
                   results, items, iterOpen, clientGone, alive, blocked, first>>

\* The client closes the connection while the response is being written.
disconnect ==
    /\ alive
    /\ hpc \in {"next", "wait"}
    /\ ~clientGone
    /\ clientGone' = TRUE
    /\ UNCHANGED <<appendVars, queryVars, recordVars, backoffVars, serveVars, hpc, wpc, ch, closed, responseBody,
                   writeHeaders, results, items, iterOpen, alive, blocked, first>>

NextStream ==
    \/ serveQuery
    \/ iterNext
    \/ iterEnd
    \/ iterError
    \/ handlerReturns
    \/ writerRecv
    \/ writerEncodeError
    \/ writerDone
    \/ writeTrailer
    \/ disconnect

SpecStream == Init /\ [][NextStream]_vars

(***************************************************************************)
(* The two listeners together: appends from both ingress handlers while    *)
(* queries over a store that holds at most MaxServed matching records      *)
(* are served.                                                             *)
(***************************************************************************)
serveQueryShort ==
    /\ serveQuery
    /\ results' <= MaxServed

NextServe ==
    \/ Next
    \/ serveQueryShort
    \/ iterNext
    \/ iterEnd
    \/ iterError
    \/ handlerReturns
    \/ writerRecv
    \/ writerEncodeError
    \/ writerDone
    \/ writeTrailer
    \/ disconnect

SpecServe == Init /\ [][NextServe]_vars

(***************************************************************************)
(* The syslog listener alone, with every kind of message.                  *)
(***************************************************************************)
processLogPartsAny(w) == \E parts \in AllSyslogMessages : processLogPartsOn(w, parts)

NextSyslog ==
    \/ \E w \in SyslogProcessors : processLogPartsAny(w)
    \/ \E w \in SyslogProcessors : FindHead(w)
    \/ \E w \in SyslogProcessors : InsertOk(w)

SpecSyslog == Init /\ [][NextSyslog]_vars

(***************************************************************************)
(* Appends under contention: besides the workers, other callers of         *)
(* makeHashAndInsert (handlers of further requests, other instances on the *)
(* same collection) commit records, each between the chain-head lookup and *)
(* the insert of a worker, so that the worker's insert is refused.         *)
(***************************************************************************)
\* Another caller's makeHashAndInsert finds the head and inserts, while a
\* worker holds a record linked to the same head.
otherCommit ==
    /\ alive
    /\ others < MaxOthers
    /\ \E w \in RestHandlers : pc[w] = "insert" /\ ~IsDup(store, bsonMarshal(l[w]))
    /\ \A w \in SyslogProcessors :
          /\ calls[w] = AppendsPerWorker
          /\ pc[w] = "done" \/ (pc[w] = "insert" /\ iteration[w] = 0)
    /\ \E body \in RestBodies, peer \in RestPeers, now \in Clock :
          LET item == normalise([body EXCEPT !.originatorip = peer.ip,
                                             !.originatorport = peer.port], now)
              own  == [bsonRoundTrip(item) EXCEPT !.shardgroup = shardGroup]
          IN  store' = Append(store, bsonMarshal(linked(own, store)))
    /\ others' = others + 1
    /\ UNCHANGED <<pc, l, iteration, backoff, primary, calls, faults, tampered, queryVars,
                   serveVars, streamVars, recordVars, slept>>

NextBackoff ==
    \/ \E w \in Workers : createLogItem(w)
    \/ \E w \in Workers : processLogParts(w)
    \/ \E w \in Workers : FindHead(w)
    \/ \E w \in Workers : InsertOk(w)
    \/ \E w \in Workers : InsertDup(w)
    \/ otherCommit

SpecBackoff == Init /\ [][NextBackoff]_vars

(***************************************************************************)
(* Both ingresses with clients that supply the fields the service          *)
(* calculates itself, and levels levelMap does not know.                   *)
(***************************************************************************)
\* Syslog messages with and without a severity, plain and with embedded
\* JSON that names sequence_id, hash or verified.
SuppliedSyslogMessages ==
    { [NoLogParts EXCEPT !.tag = StringPart(<<"t">>), !.content = StringPart(<<"m">>)] }
    \cup
    { [NoLogParts EXCEPT !.severity = IntPart(4), !.content = m] :
        m \in {StringPart(<<"{", "\"sequence_id\"", ":", "7", "}">>),
               StringPart(<<"{", "\"hash\"", ":", "\"x\"", "}">>),
               StringPart(<<"{", "\"verified\"", ":", "true", "}">>)} }

createLogItemAny(w) == \E body \in AllRestBodies : createLogItemOn(w, body)

processLogPartsSupplied(w) ==
    \E parts \in SuppliedSyslogMessages : processLogPartsOn(w, parts)

NextIngress ==
    \/ \E w \in Workers : createLogItemAny(w)
    \/ \E w \in Workers : processLogPartsSupplied(w)
    \/ \E w \in Workers : FindHead(w)
    \/ \E w \in Workers : InsertOk(w)
    \/ \E w \in Workers : InsertDup(w)

SpecIngress == Init /\ [][NextIngress]_vars

(***************************************************************************)
(* normalise and makeHash on records of every shape: a pair of records is  *)
(* changed one field at a time, normalise is applied to the first, twice,  *)
(* and the buffer of makeHash is filled for both.                          *)
(***************************************************************************)
\* A wall clock reading after those of Clock.
LaterClock == {Instant(1, 0)}

\* Values of the fields of a record: texts without and with a zero byte, known
\* and unknown levels, zero and item2 times, fields normalise assigns.
recordValues(k) ==
    CASE k = "accountgroupid" -> {<<>>, <<97>>, <<97, 0>>}
      [] k = "exception" -> {<<>>, <<98>>, <<0, 98>>}
      [] k = "level" -> {<<>>, <<73, 78, 70, 79>>, <<98, 111, 103, 117, 115>>}
      [] k = "time" -> {ZeroTime, Instant(2, 0)}
      [] k = "originatortime" -> {ZeroTime, Instant(3, 0)}
      [] k = "formatversion" -> {0, 9}
      [] k = "verified" -> {FALSE, TRUE}

recordFields ==
    {"accountgroupid", "exception", "level", "time", "originatortime",
     "formatversion", "verified"}

otherFields == {"accountgroupid", "exception"}

\* One field of one of the records is given another value.
setField ==
    /\ \/ \E k \in recordFields : \E v \in recordValues(k) \ {item1[k]} :
             item1' = [item1 EXCEPT ![k] = v] /\ item2' = item2
       \/ \E k \in otherFields : \E v \in recordValues(k) \ {item2[k]} :
             item2' = [item2 EXCEPT ![k] = v] /\ item1' = item1
    /\ normalised' = <<>>
    /\ hashed' = <<>>
    /\ UNCHANGED <<appendVars, queryVars, serveVars, streamVars, backoffVars>>

\* item1.normalise() at now1, and once more at now2.
normaliseTwice ==
    /\ \E now1 \in Clock, now2 \in Clock \cup LaterClock :
          normalised' = [first |-> normalise(item1, now1),
                         second |-> normalise(normalise(item1, now1), now2),
                         now1 |-> now1, now2 |-> now2]
    /\ UNCHANGED <<appendVars, queryVars, serveVars, streamVars, backoffVars, item1, item2, hashed>>

\* makeHash fills its buffer for item1 and for item2.
hashBoth ==
    /\ hashed' = <<hashBuffer(item1), hashBuffer(item2)>>
    /\ UNCHANGED <<appendVars, queryVars, serveVars, streamVars, backoffVars, item1, item2, normalised>>

NextRecords ==
    \/ setField
    \/ normaliseTwice
    \/ hashBoth

SpecRecords == Init /\ [][NextRecords]_vars

(***************************************************************************)
(* Properties of the append pipeline.                                      *)
(***************************************************************************)
inLoop(w) == pc[w] \in {"find", "insert"}

\* The sequence ids committed in the shard group of the service.
committedIds == {store[i].sequenceid : i \in shardDocs(store, shardGroup)}

\* The highest committed sequence id (-1 for an empty shard).
headId == IF committedIds = {} THEN -1
          ELSE CHOOSE n \in committedIds : \A m \in committedIds : m <= n

RECURSIVE SumOver(_, _)
SumOver(S, f) ==
    IF S = {} THEN 0
    ELSE LET x == CHOOSE x \in S : TRUE
         IN  f[x] + SumOver(S \ {x}, f)

\* The calls that have returned or panicked.
finishedCalls ==
    SumOver(Workers, [w \in Workers |-> IF inLoop(w) THEN calls[w] - 1 ELSE calls[w]])

\* C1: the store never holds two documents with the same
\* (shard_group, sequence_id), whatever the interleaving of the appends.
C1_UniqueSequence ==
    \A i, j \in 1..Len(store) :
        (store[i].shardgroup = store[j].shardgroup
            /\ store[i].sequenceid = store[j].sequenceid) => i = j

\* C1 witness: two documents are committed and an insert has been refused
\* as a duplicate.
C1_Witness ==
    /\ Len(store) >= 2
    /\ \E w \in Workers : iteration[w] >= 1

\* C2: every committed record with sequence_id > 0 has exactly one
\* committed predecessor (same shard, sequence_id - 1), and its
\* previous_hash is that predecessor's hash.
C2_ChainLinked ==
    \A i \in 1..Len(store) :
        store[i].sequenceid > 0 =>
            LET P == {j \in 1..Len(store) :
                        /\ store[j].shardgroup = store[i].shardgroup
                        /\ store[j].sequenceid = store[i].sequenceid - 1}
            IN  /\ Cardinality(P) = 1
                /\ \A j \in P : store[i].previoushash = store[j].hash

\* C2 witness: a record has been committed after one of its attempts was
\* linked to a head that was stale when the insert arrived.
C2_Witness ==
    /\ Len(store) >= 3
    /\ \E w \in Workers :
          /\ pc[w] = "insert"
          /\ l[w].sequenceid < headId
          /\ iteration[w] >= 1

\* C3: the committed sequence ids of the shard are exactly 0..n-1 for n
\* committed records, every finished call that met no store error has
\* committed exactly one record, and once every worker has completed
\* AppendsPerWorker appends the shard holds one verifying record per append.
C3_GapFree ==
    /\ committedIds = 0..(Len(store) - 1)
    /\ Len(store) + faults = finishedCalls
    /\ ((\A w \in Workers : pc[w] = "done" /\ calls[w] = AppendsPerWorker) /\ faults = 0)
          => /\ Len(store) = Cardinality(Workers) * AppendsPerWorker
             /\ \A i \in 1..Len(store) : queryLogItems(store)[i].verified

\* C3 witness: every worker has completed all its appends.
C3_Witness ==
    /\ \A w \in Workers : pc[w] = "done" /\ calls[w] = AppendsPerWorker
    /\ faults = 0
    /\ Len(store) = Cardinality(Workers) * AppendsPerWorker

\* C4: the first record committed to the empty shard has sequence_id 0 and
\* an empty previous_hash, and no record with sequence_id 0 has a non-empty
\* previous_hash.
C4_FirstRecord ==
    /\ Len(store) >= 1 => (store[1].sequenceid = 0 /\ store[1].previoushash = <<>>)
    /\ \A i \in 1..Len(store) :
          store[i].sequenceid = 0 => store[i].previoushash = <<>>

\* C4 witness: the first committed record came from a request body that
\* supplied a sequence id and a previous hash of its own.
C4_Witness ==
    /\ Len(store) >= 1
    /\ store[1].message = <<97>>
    /\ store[1].sequenceid = 0

\* C5: with fair scheduling and a store that raises no error, every call of
\* makeHashAndInsert eventually commits and returns.
C5_EventuallyCommits ==
    \A w \in Workers : inLoop(w) ~> (pc[w] = "done")

\* C5 witness: a call is about to commit after two refused inserts.
C5_Witness ==
    \E w \in Workers : pc[w] = "insert" /\ iteration[w] >= 2 /\ ~IsDup(store, bsonMarshal(l[w]))

\* C6: a duplicate-key answer leads to the next iteration and is never
\* surfaced; any other store error ends the call at once, the call commits
\* nothing, and the records of other calls stay as they are.
C6_ErrorHandling ==
    [][\A w \in Workers :
          /\ (pc[w] = "insert" /\ IsDup(store, bsonMarshal(l[w]))
                 /\ pc'[w] # pc[w] /\ faults' = faults)
                => (pc'[w] = "find" /\ store' = store /\ l'[w] = l[w])
          /\ (pc'[w] = "panicked" /\ pc[w] # "panicked")
                => (/\ inLoop(w)
                    /\ faults' = faults + 1
                    /\ store' = store)
          /\ (pc[w] = "panicked" /\ pc'[w] # "panicked")
                => (calls'[w] = calls[w] + 1 /\ pc'[w] = "find" /\ store' = store)
      ]_vars

\* C6 witness: a call has panicked on a store error while records of other
\* calls are committed, and a duplicate key has been retried.
C6_Witness ==
    /\ Len(store) >= 2
    /\ \E w \in Workers : pc[w] = "panicked"
    /\ \E w \in Workers : iteration[w] >= 1

\* C7: every committed record is reported verified by a query: the hash
\* made at write time equals the hash recomputed from the record read back.
C7_VerifiedOnRead ==
    \A i \in 1..Len(store) : queryLogItems(store)[i].verified

\* C7 witness: a committed record whose timestamp lost its
\* sub-millisecond part in the store is reported verified.
C7_Witness ==
    \E i \in 1..Len(store) :
        /\ store[i].originatortime = [zero |-> FALSE, ms |-> 2]
        /\ queryLogItems(store)[i].verified

\* C8: once a hashed field of a stored record has been changed without
\* recomputing any hash, a query returning all records reports
\* verified = false for at least one of them.
C8_TamperDetected ==
    tampered # {} =>
        \E i \in 1..Len(store) : ~queryLogItems(store)[i].verified

(***************************************************************************)
(* The query grammar.                                                      *)
(***************************************************************************)
\* The JSON names of the registry fields that may be queried.
queryableNames ==
    {jsonName(f) : f \in {g \in Range(logItemFieldList) :
                             ~hasFieldProperty(g, fpNoQuery)}}

scalarValue(v) == v.t \in {"bool", "float64", "string"}

RECURSIVE operatorMapConforms(_)
\* A one-entry operator map: a relational operator on a scalar, a list
\* operator on an array of scalars, or $not on such an operator map.
operatorMapConforms(v) ==
    /\ v.t = "map"
    /\ Cardinality(keysOf(v)) = 1
    /\ Len(v.kids) = 1
    /\ LET op == v.kids[1].k
           arg == v.kids[1].v
       IN  \/ op \in {"$eq", "$ne", "$gt", "$gte", "$lt", "$lte"} /\ scalarValue(arg)
           \/ /\ op \in {"$in", "$nin"}
              /\ arg.t = "array"
              /\ \A n \in 1..Len(arg.kids) : scalarValue(arg.kids[n].v)
           \/ op = "$not" /\ operatorMapConforms(arg)

RECURSIVE queryConforms(_)
\* A map each of whose entries is a queryable name with a scalar or an
\* operator map, or a logical operator with a non-empty array of
\* conforming maps.
queryConforms(v) ==
    /\ v.t = "map"
    /\ \A n \in 1..Len(v.kids) :
         LET key == v.kids[n].k
             val == v.kids[n].v
         IN  \/ /\ key \in queryableNames
                /\ scalarValue(val) \/ operatorMapConforms(val)
             \/ /\ key \in {"$or", "$and", "$nor"}
                /\ val.t = "array"
                /\ Len(val.kids) >= 1
                /\ \A m \in 1..Len(val.kids) : queryConforms(val.kids[m].v)

\* The request carried a query parameter that is JSON text.
queryGiven == request.t \notin {"absent", "malformed"}

C9_VerifiedNotPersisted ==
    /\ \A i \in 1..Len(store) : ~store[i].verified
    /\ \A w \in Workers : inLoop(w) => ~l[w].verified
    /\ \A w \in Workers : l[w].verified => pc[w] = "done"

\* C9 witness: a request that supplied verified = true has been committed
\* after a retry.
C9_Witness ==
    \E w \in RestHandlers :
        /\ pc[w] = "done"
        /\ l[w].verified
        /\ l[w].sequenceid >= 1
        /\ \E i \in 1..Len(store) : store[i].hash = l[w].hash /\ ~store[i].verified

(***************************************************************************)
(* The translation of an accepted query.                                   *)
(***************************************************************************)
\* The storage name of the field whose JSON name is j.
storageNameOf(j) == CHOOSE f \in Range(logItemFieldList) : jsonName(f) = j

logicalOperators == {"$or", "$and", "$nor"}

RECURSIVE renamed(_)
\* The query v with every field-name key replaced by the storage name, at
\* the top level and inside the elements of the logical operators; all
\* else as in v.
renamed(v) ==
    [v EXCEPT !.kids =
        [n \in 1..Len(v.kids) |->
            IF v.kids[n].k \in logicalOperators
            THEN [k |-> v.kids[n].k,
                  v |-> [v.kids[n].v EXCEPT !.kids =
                           [m \in 1..Len(v.kids[n].v.kids) |->
                               [k |-> "", v |-> renamed(v.kids[n].v.kids[m].v)]]]]
            ELSE [k |-> storageNameOf(v.kids[n].k), v |-> v.kids[n].v]]]

RECURSIVE storeKeysOnly(_)
\* Every key of the store query v, at every level of the logical
\* operators, is the storage name of a queryable field or a logical
\* operator.
storeKeysOnly(v) ==
    \A n \in 1..Len(v.kids) :
        \/ /\ v.kids[n].k \in Range(logItemFieldList)
           /\ ~hasFieldProperty(v.kids[n].k, fpNoQuery)
        \/ /\ v.kids[n].k \in logicalOperators
           /\ \A m \in 1..Len(v.kids[n].v.kids) :
                 storeKeysOnly(v.kids[n].v.kids[m].v)

\* C11: the store query of an accepted query is the query with every
\* field-name key replaced by the field's storage name, at the top level and
\* inside every $or/$and/$nor element; operator keys and values are
\* unchanged, and it has no other keys than storage names of queryable
\* fields and logical operators.
C11_TranslatedStructure ==
    (queryGiven /\ status = StatusFound) =>
        /\ query = renamed(request)
        /\ storeKeysOnly(query)

\* C11 witness: an accepted query names, inside a logical operator, a field
\* whose storage name differs from its JSON name.
C11_Witness ==
    /\ status = StatusFound
    /\ \E n \in 1..Len(request.kids) :
          /\ request.kids[n].k \in logicalOperators
          /\ \E m \in 1..Len(request.kids[n].v.kids) :
                "level_no" \in keysOf(request.kids[n].v.kids[m].v)
    /\ query # request

(***************************************************************************)
(* Queries on hash and on verified.                                        *)
(***************************************************************************)
\* The query {name: {"$eq": "x"}}.
eqX(name) ==
    JMap(<<[k |-> name, v |-> JMap(<<[k |-> "$eq", v |-> JString(120)]>>)]>>)

\* C12 as stated: the query {"hash": {"$eq": "x"}} is answered 422 and no
\* store query is issued.
C12_HashQueryRejected ==
    request = eqX("hash") =>
        status = StatusUnprocessableEntity /\ find = <<>>

\* C12 as amended: hash carries no_hash only, so with valid sort and limit
\* the query {"hash": {"$eq": "x"}} is answered 302 and issued to the store
\* as it is; verified carries no_query, and {"verified": {"$eq": "x"}} is
\* answered 422 with no store query issued.
C12_HashQueryAccepted ==
    /\ (request = eqX("hash") /\ sortOrderOf(sostring).ok /\ lstring.t # "text") =>
          /\ status = StatusFound
          /\ Len(find) = 1
          /\ find[1].query = eqX("hash")
    /\ request = eqX("verified") =>
          status = StatusUnprocessableEntity /\ find = <<>>

\* C12 witness: the query on hash has been answered 302.
C12_Witness ==
    request = eqX("hash") /\ status = StatusFound /\ find # <<>>

(***************************************************************************)
(* The sort parameter.                                                     *)
(***************************************************************************)
\* The sign a sort name starts with ("" when none), and what follows it.
signOf(name) ==
    IF Len(name) > 0 /\ name[1] \in {"-", "+"} THEN name[1] ELSE ""

afterSign(name) == IF signOf(name) = "" THEN name ELSE Tail(name)

\* The name, after its sign, is the JSON name of a queryable field (in any
\* letter case).
knownSortName(name) ==
    /\ Len(afterSign(name)) = 1
    /\ lowerPiece(afterSign(name)[1]) \in queryableNames

\* The store sort order the names call for: storage names in the order
\* given, descending exactly for the names with the sign "-", then _id.
expectedSort(names) ==
    [n \in 1..(Len(names) + 1) |->
        IF n > Len(names) THEN [desc |-> FALSE, field |-> "_id"]
        ELSE [desc |-> signOf(names[n]) = "-",
              field |-> storageNameOf(lowerPiece(afterSign(names[n])[1]))]]

\* C13: the store sort order is the list of the storage names of the sort
\* names, in their order, each descending exactly when the name has the
\* prefix "-", with _id appended last (also without a sort parameter); a
\* request with an unknown or non-queryable sort name is answered 422 and
\* no store query is issued.
C13_SortOrder ==
    status # 0 =>
        /\ (\E n \in 1..Len(sostring) : ~knownSortName(sostring[n])) =>
              status = StatusUnprocessableEntity /\ find = <<>>
        /\ status = StatusFound =>
              Len(find) = 1 /\ find[1].sort = expectedSort(sostring)
        /\ ( /\ \A n \in 1..Len(sostring) : knownSortName(sostring[n])
             /\ request.t = "absent" \/ queryConforms(request)
             /\ lstring.t # "text" ) => status = StatusFound

\* C13 witness: a request sorted by a descending and an ascending name has
\* been answered 302.
C13_Witness ==
    /\ status = StatusFound
    /\ sostring = << <<"-", "level_no">>, <<"+", "message">> >>
    /\ find[1].sort = << [desc |-> TRUE, field |-> "levelno"],
                         [desc |-> FALSE, field |-> "message"],
                         [desc |-> FALSE, field |-> "_id"] >>

(***************************************************************************)
(* The streamed response.                                                  *)
(***************************************************************************)
\* The records written to the response, in the order written.
recordsWritten ==
    LET recs == SelectSeq(responseBody, LAMBDA e : e.kind = "record")
    IN  [i \in 1..Len(recs) |-> recs[i].n]

\* The handler of a query has written its trailer.
trailerWritten == hpc = "done" /\ status = StatusFound

\* C14: when the store iteration of a query has ended normally and the
\* handler has finished, the response holds exactly the records the
\* iteration yielded, each once and in iteration order, all before the
\* trailer, and the trailer says complete = true and count = the number of
\* records written; before that the records written are an initial part of
\* the records yielded and no trailer stands in the response.
C14_StreamedExactly ==
    /\ recordsWritten = [i \in 1..Len(recordsWritten) |-> i]
    /\ Len(recordsWritten) <= items
    /\ trailerWritten =>
          LET last == responseBody[Len(responseBody)]
          IN  /\ last.kind = "trailer"
              /\ last.complete
              /\ last.n = Len(recordsWritten)
              /\ recordsWritten = [i \in 1..results |-> i]
    /\ \A i \in 1..Len(responseBody) :
          responseBody[i].kind = "trailer" => trailerWritten /\ i = Len(responseBody)

\* C14 witness: a response with more records than the channel holds has
\* been completed.
C14_Witness ==
    /\ trailerWritten
    /\ results > chanCapacity
    /\ Len(recordsWritten) = results

(***************************************************************************)
(* The status of a query response.                                         *)
(***************************************************************************)
\* The handler of the query has finished: it has returned, or the panic it
\* raised has been recovered and answered.
queryAnswered == hpc \in {"done", "recovered", "returned"}

\* The parameters of the request are valid.
validRequest ==
    /\ request.t = "absent" \/ (request.t # "malformed" /\ queryConforms(request))
    /\ lstring.t # "text"
    /\ \A n \in 1..Len(sostring) : knownSortName(sostring[n])

\* The store iteration of the request has failed.
iterationFailed == hpc \in {"recovered", "returned"}

\* C15: a query request is answered with exactly one status: 302 when the
\* parameters are valid and the store iteration succeeds, 422 when the
\* parameters are invalid, 500 when the store iteration fails, also after
\* streaming has started.
C15_OneStatus ==
    queryAnswered =>
        /\ Len(writeHeaders) = 1
        /\ writeHeaders[1] =
              (IF ~validRequest THEN StatusUnprocessableEntity
               ELSE IF iterationFailed THEN StatusInternalServerError
               ELSE StatusFound)

(***************************************************************************)
(* Containment of errors.                                                  *)
(***************************************************************************)
\* C17: no error raised while a syslog message or an HTTP request is
\* processed ends the process: it keeps running, and once the handler of
\* a failed query has returned the next request is served.
C17_ProcessSurvives ==
    /\ alive
    /\ hpc = "returned" /\ (wpc \in {"none", "done"} \/ writerBlocked) => ENABLED serveQuery

(***************************************************************************)
(* The create endpoint.                                                    *)
(***************************************************************************)
\* The fields the append pipeline assigns, as the document doc and the
\* record item carry them.
sameAssigned(doc, item) ==
    /\ doc.sequenceid = item.sequenceid
    /\ doc.previoushash = item.previoushash
    /\ doc.shardgroup = item.shardgroup
    /\ doc.hash = item.hash
    /\ doc.formatversion = item.formatversion

\* C16: a create request whose body does not decode is answered 422 and
\* appends nothing; one whose body decodes and whose append succeeds is
\* answered 201 with the record as committed (sequence_id, previous_hash,
\* shard_group, hash, format_version) and verified = true, and has appended
\* exactly that one record; a store failure during the append is answered
\* 500.
C16_CreateResponse ==
    [][\A w \in RestHandlers :
          /\ (response'[w].status = StatusUnprocessableEntity /\ response'[w] # response[w])
                => (store' = store /\ pc'[w] = pc[w] /\ calls'[w] = calls[w])
          /\ (inLoop(w) /\ pc'[w] = "done")
                => (/\ response'[w].status = StatusCreated
                    /\ store' = Append(store, store'[Len(store')])
                    /\ sameAssigned(store'[Len(store')], response'[w].body)
                    /\ response'[w].body.verified)
          /\ (inLoop(w) /\ inLoop(w)') => (store' = store \/ \E v \in Workers \ {w} : pc'[v] = "done" /\ inLoop(v))
          /\ (inLoop(w) /\ pc'[w] = "panicked")
                => (response'[w].status = StatusInternalServerError /\ store' = store)
          /\ response'[w].status = StatusCreated => pc'[w] = "done"
      ]_vars

\* C16 witness: a create request has been answered 201 with a record that
\* follows another one in the chain.
C16_Witness ==
    \E w \in RestHandlers :
        /\ response[w].status = StatusCreated
        /\ response[w].body.sequenceid >= 1
        /\ response[w].body.verified
        /\ \E i \in 1..Len(store) : sameAssigned(store[i], response[w].body)

(***************************************************************************)
(* Session copies.                                                         *)
(***************************************************************************)
\* The operation is between its db.mongoSession.Copy() and its return.
active(o) == IF o \in Workers THEN inLoop(o) ELSE hpc = "next"

\* C18: every append and every query that is running holds one open
\* session copy of its own, no two of them the same one; no other session
\* copy is open, so that none is open once all operations have left,
\* whether they returned or panicked; the iteration handle of a query is
\* open exactly while its queryLogItems runs.
C18_SessionsReleased ==
    /\ \A o \in Operations :
          IF active(o) THEN sessionCopy[o] \in openSessions ELSE sessionCopy[o] = 0
    /\ \A o1, o2 \in Operations :
          active(o1) /\ active(o2) /\ o1 # o2 => sessionCopy[o1] # sessionCopy[o2]
    /\ openSessions = {sessionCopy[o] : o \in {x \in Operations : active(x)}}
    /\ iterOpen <=> hpc = "next"

\* C18 witness: an append has returned, another has panicked and a query
\* has streamed a record and finished; no session copy is open.
C18_Witness ==
    /\ openSessions = {}
    /\ \E w \in Workers : pc[w] = "done"
    /\ \E w \in Workers : pc[w] = "panicked"
    /\ hpc = "done" /\ status = StatusFound /\ items >= 1

(***************************************************************************)
(* The record made of a syslog message.                                    *)
(***************************************************************************)
\* The client part reads host:port with a numeric port.
clientHasPort ==
    /\ logParts.client.ok
    /\ SplitHostPort(logParts.client.s).ok
    /\ Atoi(SplitHostPort(logParts.client.s).port).ok

\* C19: the record a syslog message with a client host:port (port numeric)
\* is appended with carries originator_ip = host and originator_port = port.
C19_ClientHostPort ==
    \A w \in SyslogProcessors :
        inLoop(w) /\ clientHasPort =>
            /\ l[w].originatorip = textBytes(SplitHostPort(logParts.client.s).host)
            /\ l[w].originatorport = Atoi(SplitHostPort(logParts.client.s).port).n

\* The string processLogParts hands to the JSON decoder (<<>>: none).
jsonCandidate ==
    LET tag == logParts.tag
        content == logParts.content
    IN  IF tag.ok /\ content.ok /\ containsBrace(tag.s)
        THEN <<tag.s \o <<":">> \o content.s>>
        ELSE IF content.ok /\ containsBrace(content.s) THEN <<content.s>>
        ELSE <<>>

\* Tag and content put together: tag:content, or the one that is present.
concatenation ==
    LET tag == logParts.tag
        content == logParts.content
    IN  IF tag.ok /\ content.ok THEN textBytes(tag.s \o <<":">> \o content.s)
        ELSE IF content.ok THEN textBytes(content.s)
        ELSE IF tag.ok THEN textBytes(tag.s)
        ELSE <<>>

\* C20: with tag and content present and a brace in the tag, tag:content is
\* decoded as JSON into the record; else with a brace in the content, the
\* content is; the message is the concatenation of the parts present when
\* nothing is decoded or the decoding fails, and is what the JSON says (not
\* the concatenation) when the decoding succeeds.
C20_TagContent ==
    \A w \in SyslogProcessors :
        inLoop(w) =>
            LET before == withClient(EmptyLogItem, logParts.client)
                decoded == jsonUnmarshal(jsonCandidate[1], before)
            IN  IF jsonCandidate # <<>> /\ decoded.ok
                THEN /\ l[w].message = decoded.item.message
                     /\ l[w].originatorip = decoded.item.originatorip
                     /\ l[w].originatorport = decoded.item.originatorport
                ELSE /\ l[w].message = concatenation
                     /\ l[w].originatorip = before.originatorip
                     /\ l[w].originatorport = before.originatorport

\* C20 witness: a message whose tag and content are JSON only when put
\* together has been decoded, and its message is the one the JSON gives.
C20_Witness ==
    \E w \in SyslogProcessors :
        /\ inLoop(w)
        /\ logParts.tag = StringPart(<<"{", "\"message\"">>)
        /\ logParts.content = StringPart(<<"\"x\"", "}">>)
        /\ l[w].message = pieceBytes("x")

(***************************************************************************)
(* The times of a record ingested through syslog.                          *)
(***************************************************************************)
\* The wall clock readings as a stored record carries them.
storedClock == {TimeToBson(now) : now \in Clock}

\* The message carries a time of its own in embedded JSON.
jsonCarriesTime ==
    /\ jsonCandidate # <<>>
    /\ jsonUnmarshal(jsonCandidate[1], EmptyLogItem).ok
    /\ ~IsZero(jsonUnmarshal(jsonCandidate[1], EmptyLogItem).item.time)

\* C21: the time of every record ingested through syslog is the server's
\* receipt time, whatever time the message carries, embedded JSON
\* included; the timestamp of the message is kept in originator_time only.
C21_ReceiptTime ==
    /\ \A i \in 1..Len(store) : store[i].time \in storedClock
    /\ \A w \in SyslogProcessors :
          inLoop(w) =>
              /\ TimeToBson(l[w].time) \in storedClock
              /\ logParts.timestamp.ok =>
                    /\ l[w].originatortime = bsonRoundTrip(
                           [EmptyLogItem EXCEPT !.originatortime = logParts.timestamp.t]).originatortime
                    /\ l[w].time # l[w].originatortime

\* C21 witness: a message with a timestamp and with a time in its embedded
\* JSON is being appended.
C21_Witness ==
    \E w \in SyslogProcessors :
        /\ inLoop(w)
        /\ logParts.timestamp.ok
        /\ jsonCarriesTime
        /\ TimeToBson(l[w].time) \in storedClock

(***************************************************************************)
(* normalise applied twice.                                                *)
(***************************************************************************)
\* C22: normalise applied to a normalised record changes no field of it,
\* whatever the wall clock reads at the second application.
C22_NormaliseIdempotent ==
    normalised # <<>> => normalised.second = normalised.first

\* C22 witness: normalise has been applied, at two different clock
\* readings, to a record whose times were zero and whose level is unknown.
C22_Witness ==
    /\ normalised # <<>>
    /\ normalised.now1 # normalised.now2
    /\ IsZero(item1.time) /\ IsZero(item1.originatortime)
    /\ item1.verified /\ item1.formatversion # 1
    /\ normalised.first.levelno = -1
    /\ normalised.second.time = normalised.now1

(***************************************************************************)
(* The integers that are hashed.                                           *)
(***************************************************************************)
\* The hashed fields of integer type.
hashedIntegers ==
    {logItemFieldList[i] : i \in 1..Len(logItemFieldList)} \cap
        {k \in DOMAIN EmptyLogItem :
            fieldKind(k) = "int" /\ ~hasFieldProperty(k, fpNoHash)}

\* C23: no hashed integer field of a record that makeHash has hashed, in
\* the loop of makeHashAndInsert or committed to the store, is negative.
C23_NoNegativeHashed ==
    /\ \A w \in Workers : pc[w] = "insert" =>
            \A k \in hashedIntegers : l[w][k] >= 0
    /\ \A i \in 1..Len(store) : \A k \in hashedIntegers : store[i][k] >= 0

(***************************************************************************)
(* The fields the service calculates itself.                               *)
(***************************************************************************)
\* C26: every committed record holds in sequence_id, previous_hash,
\* shard_group, hash, format_version, level_no and verified the values
\* normalise and makeHashAndInsert assign, whichever ingress produced it
\* and whatever the client supplied for them.
C26_PipelineAssigned ==
    \A i \in 1..Len(store) :
        LET d == store[i]
        IN  /\ d.sequenceid = i - 1
            /\ d.previoushash = (IF i = 1 THEN <<>> ELSE store[i - 1].hash)
            /\ d.shardgroup = shardGroup
            /\ d.hash = makeHash(bsonUnmarshal(d)).hash
            /\ d.formatversion = 1
            /\ d.levelno = levelNoOf(ToLower(d.level))
            /\ d.verified = FALSE

\* C26 witness: the store holds a record of a request body that supplied
\* all seven fields, and after it a record of a syslog message whose
\* embedded JSON supplied a hash.
C26_Witness ==
    /\ \E i, j \in 1..Len(store) :
          /\ i < j
          /\ store[i].message = <<97>> /\ store[i].originatorip = <<49>>
          /\ store[j].message = <<>>
    /\ calls["syslog"] = 1 /\ pc["syslog"] = "done"
    /\ logParts.content = StringPart(<<"{", "\"hash\"", ":", "\"x\"", "}">>)

(***************************************************************************)
(* The backoff of the retry loop.                                          *)
(***************************************************************************)
\* The step is a refused insert of w's call.
insertRefused(w) == pc[w] = "insert" /\ pc'[w] = "find"

\* C24: within one call the first iterationsBeforeBackoff refused inserts
\* are retried without a sleep and leave backoff alone; every later refused
\* insert sleeps between 1 and backoff microseconds and then sets backoff
\* to min(2 * backoff, maximumBackoff); a call starts with backoff 1,
\* backoff stays within 1..maximumBackoff, and no step of another call
\* changes it.
C24_Backoff ==
    [][\A w \in Workers :
          /\ (insertRefused(w) /\ iteration[w] < iterationsBeforeBackoff)
                => (slept'[w] = 0 /\ backoff'[w] = backoff[w])
          /\ (insertRefused(w) /\ iteration[w] >= iterationsBeforeBackoff)
                => /\ slept'[w] \in 1..backoff[w]
                   /\ backoff'[w] = Min(2 * backoff[w], maximumBackoff)
          /\ (atRest(w) /\ ~atRest(w)') => backoff'[w] = initialBackoff
          /\ pc'[w] = pc[w] => backoff'[w] = backoff[w]
          /\ backoff[w] \in 1..maximumBackoff /\ backoff'[w] \in 1..maximumBackoff
      ]_vars

\* C24 witness: a call has reached the maximum backoff after sleeping less
\* than it, while the call of the other worker, begun before, still holds
\* its initial backoff.
C24_Witness ==
    \E w, v \in Workers :
        /\ pc[w] = "find" /\ pc[v] = "insert"
        /\ backoff[w] = maximumBackoff
        /\ slept[w] > 1 /\ slept[w] < maximumBackoff
        /\ backoff[v] = initialBackoff
        /\ others >= 17

(***************************************************************************)
(* What the verified flag of a record depends on.                          *)
(***************************************************************************)
\* C25: makeHash gives the same hash to records that differ in hash or
\* verified only, and once record k has been modified in a hashed field a
\* query reports verified = false for record k and verified = true for
\* every unmodified record, the successor of k included.
C25_OwnFieldsOnly ==
    /\ \A i \in 1..Len(store) :
          LET item == bsonUnmarshal(store[i])
          IN  makeHash([item EXCEPT !.hash = <<>>, !.verified = ~item.verified]).hash
                 = makeHash(item).hash
    /\ \A i \in 1..Len(store) :
          queryLogItems(store)[i].verified <=> (\A k \in hashedFields : <<i, k>> \notin tampered)

(***************************************************************************)
(* The writer goroutine at the return of the query handler.                *)
(***************************************************************************)
\* C27: once the queryLogItem handler has returned, normally or after
\* wrapPanic has recovered the panic of queryLogItems, the writer goroutine
\* it started has terminated and its channel has been closed, so that no
\* goroutine is blocked receiving and nothing is written any more.
C27_WriterTerminated ==
    hpc \in {"done", "returned"} =>
        /\ wpc \in {"none", "done"}
        /\ wpc = "done" => closed

(***************************************************************************)
(* The buffer makeHash hashes, as a function of the hashed fields.         *)
(***************************************************************************)
\* C28: two records that differ in the value of at least one hashed field
\* never give makeHash the same byte sequence.
C28_Injective ==
    hashed # <<>> =>
        ((\E k \in hashedFields : item1[k] # item2[k]) => hashed[1] # hashed[2])

=============================================================================
